---- MODULE Spec2Model ----
(***************************************************************************)
(* Model of the request protocol engine of Http::Server                    *)
(* (src/src/Server.cpp, the revision that starts at line 534).             *)
(*                                                                         *)
(* A byte is a one-character string and a std::string is a sequence of     *)
(* bytes.  Offsets are 0-based as in the code; Substr and Find are the     *)
(* std::string operations.  size_t is modelled with SizeBits bits instead  *)
(* of 64 (TLC integers are 32 bit); MAX_CONTENT_LENGTH keeps its value.    *)
(***************************************************************************)
EXTENDS Integers, Sequences, FiniteSets, TLC

\* ------------------------------------------------------------------------
\* Bounds of the model
\* ------------------------------------------------------------------------

\* width of size_t in the model
SizeBits == 27

\* the value given to the configuration item HeaderLineLimit
ConfiguredLineLimit == 28

\* largest number of requests put on the wire of the connection
MaxRequests == 2

\* largest number of chunks in which the wire is delivered
MaxChunks == 4

\* the calls of RegisterResource and of unregistration delegates in a run
MaxRegistrations == 3

\* the calls of Mobilize and Demobilize in a run
MaxLifecycleCalls == 5

\* the seconds the time source advances in a run
MaxTime == 3

\* the wakes of the timeout monitor in a run
MaxWakes == 2

\* the calls of the broken delegate of the connection in a run
MaxBrokenCalls == 2

\* ------------------------------------------------------------------------
\* Program constants
\* ------------------------------------------------------------------------

MAX_CONTENT_LENGTH == 10000000

DEFAULT_HEADER_LINE_LIMIT == 1000

SizeModulus == 2 ^ SizeBits

\* std::string::npos
NPOS == SizeModulus - 1

CR == "\r"

LF == "\n"

SP == " "

CRLF == <<CR, LF>>

HTTP11 == <<"H","T","T","P","/","1",".","1">>

HostName == <<"H","o","s","t">>

ContentLengthName == <<"C","o","n","t","e","n","t","-","L","e","n","g","t","h">>

ConnectionName == <<"C","o","n","n","e","c","t","i","o","n">>

TransferEncodingName == <<"T","r","a","n","s","f","e","r","-","E","n","c","o","d","i","n","g">>

ContentTypeName == <<"C","o","n","t","e","n","t","-","T","y","p","e">>

CloseToken == <<"c","l","o","s","e">>

Digits == <<"0","1","2","3","4","5","6","7","8","9">>

\* ------------------------------------------------------------------------
\* std::string operations
\* ------------------------------------------------------------------------

Min(a, b) == IF a < b THEN a ELSE b

\* s.substr(pos, count): at most count bytes from offset pos (pos <= length)
Substr(s, pos, count) == SubSeq(s, pos + 1, Min(Len(s), pos + count))

\* s.substr(pos): the rest of the string from offset pos
SubstrFrom(s, pos) == SubSeq(s, pos + 1, Len(s))

\* does pat occur in s at offset i
OccursAt(s, pat, i) ==
    /\ i + Len(pat) <= Len(s)
    /\ \A k \in 1..Len(pat) : s[i + k] = pat[k]

\* s.find(pat, from): smallest offset >= from at which pat occurs, or npos
Find(s, pat, from) ==
    LET hits == {i \in from..(Len(s) - Len(pat)) : OccursAt(s, pat, i)}
    IN  IF hits = {} THEN NPOS
        ELSE CHOOSE i \in hits : \A j \in hits : i <= j

\* the value of a decimal digit, or -1 for any other byte
DigitValue(c) ==
    IF \E d \in 1..10 : Digits[d] = c
    THEN (CHOOSE d \in 1..10 : Digits[d] = c) - 1
    ELSE -1

\* ------------------------------------------------------------------------
\* ParseSize
\* ------------------------------------------------------------------------

\* ParseSize with the wrap looked for by comparing with the previous number
RECURSIVE ParseSizeFrom_ComparesPrevious(_, _, _)
ParseSizeFrom_ComparesPrevious(stringSize, i, number) ==
    IF i > Len(stringSize) THEN [result |-> "Success", number |-> number]
    ELSE IF DigitValue(stringSize[i]) < 0
         THEN [result |-> "NotaNumber", number |-> number]
    ELSE LET next == (number * 10 + DigitValue(stringSize[i])) % SizeModulus
         IN  IF next < number
             THEN [result |-> "Overflow", number |-> next]
             ELSE ParseSizeFrom_ComparesPrevious(stringSize, i + 1, next)

RECURSIVE ParseSizeFrom(_, _, _)
ParseSizeFrom(stringSize, i, number) ==
    IF i > Len(stringSize) THEN [result |-> "Success", number |-> number]
    ELSE IF DigitValue(stringSize[i]) < 0
         THEN [result |-> "NotaNumber", number |-> number]
    ELSE LET next == (number * 10 + DigitValue(stringSize[i])) % SizeModulus
         IN  IF next \div 10 # number
             THEN [result |-> "Overflow", number |-> next]
             ELSE ParseSizeFrom(stringSize, i + 1, next)

ParseSize(stringSize) == ParseSizeFrom(stringSize, 1, 0)

\* ------------------------------------------------------------------------
\* Uri::Uri, as far as the engine uses it
\* ------------------------------------------------------------------------

EmptyUri == [host |-> <<>>, path |-> <<>>]

\* bytes that make Uri::ParseFromString fail
UriIllegal == {"^", SP, CR, LF}

\* split a path string at every "/": "/a/b" gives <<"", "a", "b">>
RECURSIVE SplitPath(_)
SplitPath(s) ==
    LET slash == Find(s, <<"/">>, 0)
    IN  IF slash = NPOS THEN <<s>>
        ELSE <<Substr(s, 0, slash)>> \o SplitPath(SubstrFrom(s, slash + 1))

\* the string behind the scheme, if the string has one
UriAfterScheme(s, colon, slash) ==
    IF colon # NPOS /\ (slash = NPOS \/ colon < slash)
    THEN SubstrFrom(s, colon + 1) ELSE s

\* host and path string of "//host/path", the authority ending at authorityEnd
UriAuthority(rest, authorityEnd) ==
    IF authorityEnd = NPOS
    THEN [host |-> SubstrFrom(rest, 2), pathString |-> <<>>]
    ELSE [host |-> Substr(rest, 2, authorityEnd - 2),
          pathString |-> SubstrFrom(rest, authorityEnd)]

\* host and path string of what follows the scheme
UriComponents(rest) ==
    IF OccursAt(rest, <<"/","/">>, 0)
    THEN UriAuthority(rest, Find(rest, <<"/">>, 2))
    ELSE [host |-> <<>>, pathString |-> rest]

UriOf(components) ==
    [host |-> components.host,
     path |-> IF components.pathString = <<>> THEN <<>>
              ELSE SplitPath(components.pathString)]

\* Uri::ParseFromString: [ok, uri]
UriParseFromString(s) ==
    IF \E i \in 1..Len(s) : s[i] \in UriIllegal
    THEN [ok |-> FALSE, uri |-> EmptyUri]
    ELSE [ok |-> TRUE,
          uri |-> UriOf(UriComponents(
                      UriAfterScheme(s, Find(s, <<":">>, 0), Find(s, <<"/">>, 0))))]

\* ------------------------------------------------------------------------
\* Request
\* ------------------------------------------------------------------------

EmptyHeaders == [entries |-> <<>>, valid |-> TRUE]

\* a default-constructed Request
NewRequest ==
    [valid |-> TRUE,
     method |-> <<>>,
     target |-> EmptyUri,
     headers |-> EmptyHeaders,
     body |-> <<>>,
     state |-> "RequestLine",
     responseStatusCode |-> 400,
     responseStatusPhrase |-> "Bad Request"]

IsProcessed(request) == request.state \in {"Complete", "Error"}

\* ParseRequestLine, the protocol: the target is what Uri made of it, the
\* result is that of Uri and of the comparison of the protocol
ParseProtocol(request, parsed, protocol) ==
    [ok |-> parsed.ok /\ protocol = HTTP11,
     request |-> [request EXCEPT !.target = parsed.uri]]

\* ParseRequestLine, the target URI, from the two delimiters found
ParseTarget(request, requestLine, methodDelimiter, targetDelimiter) ==
    IF (targetDelimiter - methodDelimiter - 1) % SizeModulus = 0
    THEN [ok |-> FALSE, request |-> request]
    ELSE ParseProtocol(request,
             UriParseFromString(
                 Substr(requestLine, methodDelimiter + 1,
                        (targetDelimiter - methodDelimiter - 1) % SizeModulus)),
             SubstrFrom(requestLine, (targetDelimiter + 1) % SizeModulus))

\* ParseRequestLine, the method, from the delimiter found
ParseMethod(request, requestLine, methodDelimiter) ==
    IF methodDelimiter = NPOS
    THEN [ok |-> FALSE, request |-> request]
    ELSE IF Substr(requestLine, 0, methodDelimiter) = <<>>
    THEN [ok |-> FALSE, request |-> [request EXCEPT !.method = <<>>]]
    ELSE ParseTarget(
             [request EXCEPT !.method = Substr(requestLine, 0, methodDelimiter)],
             requestLine, methodDelimiter,
             Find(requestLine, <<SP>>, methodDelimiter + 1))

\* ParseRequestLine: the request with method and target stored, and the result
ParseRequestLine(request, requestLine) ==
    ParseMethod(request, requestLine, Find(requestLine, <<SP>>, 0))

\* ------------------------------------------------------------------------
\* MessageHeaders::MessageHeaders, as far as the engine uses it
\* ------------------------------------------------------------------------

\* remove the spaces at both ends of a string
RECURSIVE StripMarginWhitespace(_)
StripMarginWhitespace(s) ==
    IF s = <<>> THEN s
    ELSE IF Head(s) = SP THEN StripMarginWhitespace(Tail(s))
    ELSE IF s[Len(s)] = SP THEN StripMarginWhitespace(SubSeq(s, 1, Len(s) - 1))
    ELSE s

HasHeader(headers, name) ==
    \E i \in 1..Len(headers.entries) : headers.entries[i][1] = name

\* the value of the first header with the given name
GetHeaderValue(headers, name) ==
    LET i == CHOOSE i \in 1..Len(headers.entries) :
                 /\ headers.entries[i][1] = name
                 /\ \A j \in 1..(i - 1) : headers.entries[j][1] # name
    IN  headers.entries[i][2]

\* split a header value at every comma and strip each piece
RECURSIVE SplitTokens(_)
SplitTokens(value) ==
    LET comma == Find(value, <<",">>, 0)
    IN  IF comma = NPOS THEN <<StripMarginWhitespace(value)>>
        ELSE <<StripMarginWhitespace(Substr(value, 0, comma))>>
             \o SplitTokens(SubstrFrom(value, comma + 1))

\* the tokens of all the headers with the given name, in order
RECURSIVE MultiValuesFrom(_, _, _)
MultiValuesFrom(entries, name, i) ==
    IF i > Len(entries) THEN <<>>
    ELSE (IF entries[i][1] = name THEN SplitTokens(entries[i][2]) ELSE <<>>)
         \o MultiValuesFrom(entries, name, i + 1)

GetHeaderMultiValues(headers, name) == MultiValuesFrom(headers.entries, name, 1)

AddHeader(headers, name, value) ==
    [headers EXCEPT !.entries = Append(@, <<name, value>>)]

\* MessageHeaders::ParseRawMessage from the given offset of rawMessage:
\* whole lines are taken one by one, a line without a colon makes the
\* headers invalid, a line longer than the limit (CRLF included) is an error
RECURSIVE ParseRawMessageFrom(_, _, _, _)
ParseRawMessageFrom(headers, rawMessage, offset, lineLimit) ==
    IF offset >= Len(rawMessage)
    THEN [state |-> "Incomplete", headers |-> headers, bodyOffset |-> offset]
    ELSE
    LET lineTerminator == Find(rawMessage, CRLF, offset)
    IN  IF lineTerminator = NPOS
        THEN IF lineLimit > 0 /\ Len(rawMessage) - offset > lineLimit
             THEN [state |-> "Error", headers |-> headers, bodyOffset |-> offset]
             ELSE [state |-> "Incomplete", headers |-> headers,
                   bodyOffset |-> offset]
        ELSE IF lineLimit > 0 /\ lineTerminator - offset + 2 > lineLimit
        THEN [state |-> "Error", headers |-> headers, bodyOffset |-> offset]
        ELSE IF lineTerminator = offset
        THEN [state |-> "Complete", headers |-> headers,
              bodyOffset |-> offset + 2]
        ELSE
        LET line == Substr(rawMessage, offset, lineTerminator - offset)
            nameValueDelimiter == Find(line, <<":">>, 0)
            parsed ==
                IF nameValueDelimiter = NPOS
                THEN [headers EXCEPT !.valid = FALSE]
                ELSE AddHeader(headers,
                         Substr(line, 0, nameValueDelimiter),
                         StripMarginWhitespace(
                             SubstrFrom(line, nameValueDelimiter + 1)))
        IN  ParseRawMessageFrom(parsed, rawMessage, lineTerminator + 2,
                                lineLimit)

ParseRawMessage(headers, rawMessage, lineLimit) ==
    ParseRawMessageFrom(headers, rawMessage, 0, lineLimit)

\* ------------------------------------------------------------------------
\* Server::Impl::ParseRequest
\* ------------------------------------------------------------------------

\* The three stages of ParseRequest work on a frame
\* [request, messageEnd, returned]: returned is TRUE once the code has
\* executed a return statement.

\* stage 1, the request line parsed: valid is the result of ParseRequestLine
RequestLineParsed(parsed, messageEnd) ==
    [request |-> [parsed.request EXCEPT !.valid = parsed.ok],
     messageEnd |-> messageEnd,
     returned |-> FALSE]

\* stage 1 with a line of exactly the limit refused
RequestLineAt_LimitExclusive(request, nextRawRequestPart, headerLineLimit, requestLineEnd) ==
    IF requestLineEnd = NPOS
    THEN IF Len(nextRawRequestPart) > headerLineLimit
         THEN [request |-> [request EXCEPT !.state = "Error"],
               messageEnd |-> 0, returned |-> TRUE]
         ELSE [request |-> request, messageEnd |-> 0, returned |-> TRUE]
    ELSE IF requestLineEnd >= headerLineLimit
    THEN [request |-> [request EXCEPT !.state = "Error"],
          messageEnd |-> 0, returned |-> TRUE]
    ELSE RequestLineParsed(
             ParseRequestLine([request EXCEPT !.state = "Headers"],
                              Substr(nextRawRequestPart, 0, requestLineEnd)),
             requestLineEnd + Len(CRLF))

\* stage 1, from the offset of the first CRLF of the buffer
RequestLineAt(request, nextRawRequestPart, headerLineLimit, requestLineEnd) ==
    IF requestLineEnd = NPOS
    THEN IF Len(nextRawRequestPart) > headerLineLimit
         THEN [request |-> [request EXCEPT !.state = "Error"],
               messageEnd |-> 0, returned |-> TRUE]
         ELSE [request |-> request, messageEnd |-> 0, returned |-> TRUE]
    ELSE IF requestLineEnd > headerLineLimit
    THEN [request |-> [request EXCEPT !.state = "Error"],
          messageEnd |-> 0, returned |-> TRUE]
    ELSE RequestLineParsed(
             ParseRequestLine([request EXCEPT !.state = "Headers"],
                              Substr(nextRawRequestPart, 0, requestLineEnd)),
             requestLineEnd + Len(CRLF))

\* stage 1: the request line
ParseRequestLineStage(request, nextRawRequestPart, headerLineLimit) ==
    IF request.state # "RequestLine"
    THEN [request |-> request, messageEnd |-> 0, returned |-> FALSE]
    ELSE RequestLineAt(request, nextRawRequestPart, headerLineLimit,
                       Find(nextRawRequestPart, CRLF, 0))

\* the checks of the Host header made when the header block is complete
\* the check of the Host header with a slip: the configuration item Host is
\* not compared
HostCheck_ServerHostIgnored(request, serverHostItem) ==
    IF HasHeader(request.headers, HostName)
    THEN IF /\ request.target.host # <<>>
            /\ GetHeaderValue(request.headers, HostName) # request.target.host
         THEN [request EXCEPT !.valid = FALSE]
         ELSE request
    ELSE [request EXCEPT !.valid = FALSE]

HostCheck(request, serverHostItem) ==
    IF HasHeader(request.headers, HostName)
    THEN LET requestHost == GetHeaderValue(request.headers, HostName)
             serverHost == IF serverHostItem = <<>> THEN requestHost
                           ELSE serverHostItem
             targetHost == IF request.target.host = <<>> THEN serverHost
                           ELSE request.target.host
         IN  IF requestHost # targetHost \/ requestHost # serverHost
             THEN [request EXCEPT !.valid = FALSE]
             ELSE request
    ELSE [request EXCEPT !.valid = FALSE]

\* stage 2 with valid assigned from the validity of the headers
HeadersParsed_ValidAssigned(frame, result, serverHostItem) ==
    CASE result.state = "Complete" ->
            [request |-> HostCheck(
                 [frame.request EXCEPT !.headers = result.headers,
                                       !.valid = result.headers.valid,
                                       !.state = "Body"],
                 serverHostItem),
             messageEnd |-> frame.messageEnd + result.bodyOffset,
             returned |-> FALSE]
      [] result.state = "Incomplete" ->
            [request |-> [frame.request EXCEPT !.headers = result.headers],
             messageEnd |-> frame.messageEnd + result.bodyOffset,
             returned |-> TRUE]
      [] OTHER ->
            [request |-> [frame.request EXCEPT !.headers = result.headers,
                                               !.state = "Error"],
             messageEnd |-> frame.messageEnd + result.bodyOffset,
             returned |-> TRUE]

\* stage 2, from the result of MessageHeaders::ParseRawMessage
HeadersParsed(frame, result, serverHostItem) ==
    CASE result.state = "Complete" ->
            [request |-> HostCheck(
                 [frame.request EXCEPT !.headers = result.headers,
                                       !.valid = @ /\ result.headers.valid,
                                       !.state = "Body"],
                 serverHostItem),
             messageEnd |-> frame.messageEnd + result.bodyOffset,
             returned |-> FALSE]
      [] result.state = "Incomplete" ->
            [request |-> [frame.request EXCEPT !.headers = result.headers],
             messageEnd |-> frame.messageEnd + result.bodyOffset,
             returned |-> TRUE]
      [] OTHER ->
            [request |-> [frame.request EXCEPT !.headers = result.headers,
                                               !.state = "Error"],
             messageEnd |-> frame.messageEnd + result.bodyOffset,
             returned |-> TRUE]

\* stage 2: the message headers
ParseHeadersStage(frame, nextRawRequestPart, headerLineLimit, serverHostItem) ==
    IF frame.returned \/ frame.request.state # "Headers" THEN frame
    ELSE HeadersParsed(frame,
             ParseRawMessage(frame.request.headers,
                             SubstrFrom(nextRawRequestPart, frame.messageEnd),
                             headerLineLimit),
             serverHostItem)

\* stage 3, the request refused with 413
PayloadTooLarge(frame) ==
    [frame EXCEPT !.request.state = "Error",
                  !.request.responseStatusCode = 413,
                  !.request.responseStatusPhrase = "Payload Too Large",
                  !.returned = TRUE]

\* TakeBody with a slip: the bytes of the body are not counted as accepted
TakeBody_BodyNotCounted(frame, nextRawRequestPart, contentLength) ==
    [request |-> [frame.request EXCEPT
                     !.body = Substr(nextRawRequestPart, frame.messageEnd,
                                     contentLength),
                     !.state = "Complete"],
     messageEnd |-> frame.messageEnd,
     returned |-> FALSE]

\* stage 3, the body carved out of the buffer
TakeBody(frame, nextRawRequestPart, contentLength) ==
    [request |-> [frame.request EXCEPT
                     !.body = Substr(nextRawRequestPart, frame.messageEnd,
                                     contentLength),
                     !.state = "Complete"],
     messageEnd |-> frame.messageEnd + contentLength,
     returned |-> FALSE]

\* CheckContentLength with a slip: a Content-Length equal to the ceiling is
\* refused
CheckContentLength_CeilingExclusive(frame, nextRawRequestPart, size) ==
    IF size.result = "NotaNumber"
    THEN [frame EXCEPT !.request.state = "Error", !.returned = TRUE]
    ELSE IF size.result = "Overflow"
    THEN PayloadTooLarge(frame)
    ELSE IF size.number >= MAX_CONTENT_LENGTH
    THEN PayloadTooLarge(frame)
    ELSE IF size.number > Len(nextRawRequestPart) - frame.messageEnd
    THEN [frame EXCEPT !.returned = TRUE]
    ELSE TakeBody(frame, nextRawRequestPart, size.number)

\* stage 3, from the result of ParseSize on the Content-Length header
CheckContentLength(frame, nextRawRequestPart, size) ==
    IF size.result = "NotaNumber"
    THEN [frame EXCEPT !.request.state = "Error", !.returned = TRUE]
    ELSE IF size.result = "Overflow"
    THEN PayloadTooLarge(frame)
    ELSE IF size.number > MAX_CONTENT_LENGTH
    THEN PayloadTooLarge(frame)
    ELSE IF size.number > Len(nextRawRequestPart) - frame.messageEnd
    THEN [frame EXCEPT !.returned = TRUE]
    ELSE TakeBody(frame, nextRawRequestPart, size.number)

\* stage 3 with everything behind the header block taken as the body of a
\* request without Content-Length
ParseBodyStage_RestTaken(frame, nextRawRequestPart) ==
    IF frame.returned \/ frame.request.state # "Body" THEN frame
    ELSE IF HasHeader(frame.request.headers, ContentLengthName)
    THEN CheckContentLength(frame, nextRawRequestPart,
             ParseSize(GetHeaderValue(frame.request.headers, ContentLengthName)))
    ELSE [frame EXCEPT
             !.request.body = SubstrFrom(nextRawRequestPart, frame.messageEnd),
             !.request.state = "Complete",
             !.messageEnd = Len(nextRawRequestPart)]

\* stage 3: the body
ParseBodyStage(frame, nextRawRequestPart) ==
    IF frame.returned \/ frame.request.state # "Body" THEN frame
    ELSE IF HasHeader(frame.request.headers, ContentLengthName)
    THEN CheckContentLength(frame, nextRawRequestPart,
             ParseSize(GetHeaderValue(frame.request.headers, ContentLengthName)))
    ELSE [frame EXCEPT !.request.body = <<>>, !.request.state = "Complete"]

\* what ParseRequest hands back: the request and the count of bytes accepted
Accepted(frame) ==
    [request |-> frame.request, charactersAccepted |-> frame.messageEnd]

\* ParseRequest: the request after the call and the count of bytes accepted
ParseRequest(request, nextRawRequestPart, headerLineLimit, serverHostItem) ==
    Accepted(
        ParseBodyStage(
            ParseHeadersStage(
                ParseRequestLineStage(request, nextRawRequestPart,
                                      headerLineLimit),
                nextRawRequestPart, headerLineLimit, serverHostItem),
            nextRawRequestPart))


\* ------------------------------------------------------------------------
\* State
\* ------------------------------------------------------------------------

VARIABLES
    headerLineLimit,   \* Impl::headerLineLimit
    configuration,     \* Impl::configuration, the items the engine reads
    resources,         \* Impl::resources: node path -> handler, <<>> is nullptr
    connections,       \* the ConnectionState of the client, <<>> before it connects
    wire,              \* the requests the client puts on the connection
    delivered,         \* count of bytes of the wire given to the data delegate
    chunks,            \* count of calls of the data delegate
    establishedConnections, \* Impl::establishedConnections (connection numbers)
    brokenConnections,      \* Impl::brokenConnections
    oldBrokenConnections,   \* the local set of Impl::Reaper
    delegate,          \* the delegate of the connection that is running, or "none"
    destroyedBy,       \* the thread that destroyed the ConnectionState, or "none"
    registration,      \* the last call of RegisterResource and what it returned
    closures,          \* the spaces whose unregistration delegate is held
    transport,         \* Server::Impl::transport: a transport, or NoTransport
    bound,             \* for each transport, whether it is bound
    server,            \* "alive", "joining" in ~Server, or "destroyed" after it
    lifecycle,         \* the last call of Mobilize, Demobilize or ~Server
    now,               \* the time the time source gives
    timeLastDataReceived,    \* ConnectionState::timeLastDataReceived
    timeLastRequestStarted,  \* ConnectionState::timeLastRequestStarted
    wakes,             \* the wakes of the timeout monitor so far
    wakesAfterTimeout, \* those of them after the monitor had sent a 408
    inactivityTimeout, \* the configuration item InactivityTimeout
    requestTimeout,    \* the configuration item RequestTimeout
    upgraded,          \* the engine has released its reference to the Connection
    handlerReceived,   \* the chunks given to the data delegate of the handler
    stopReaper,        \* Impl::stopReaper
    reaper,            \* Impl::reaper: "running", or "done" after Reaper returned
    brokenFired,       \* count of calls of the broken delegate
    taken,             \* the reaper has moved the ConnectionState to its local set
    stringSize,        \* the argument of a call of ParseSize
    size,              \* what the call of ParseSize has returned, or NotParsed
    spaces,            \* for each space of the tree, the ResourceSpace object it is
    nextSpace,         \* the count of ResourceSpace objects made so far, plus one
    held,              \* the unregistration delegates the embedder keeps for good
    lastCall,          \* the last call of one of them, and the tree before it
    mutex,             \* Impl::mutex: the thread that holds it, or "free"
    at,                \* for each thread, where it is
    stopMonitor        \* the stop flag of the timeout monitor

\* the ownership of the ConnectionState and the position of its delegates
peerVars == <<establishedConnections, brokenConnections, oldBrokenConnections,
              delegate, destroyedBy>>

\* what the embedder holds from its calls of RegisterResource
registryVars == <<registration, closures>>

\* the server's transport and the transports of the embedder
lifecycleVars == <<transport, bound, server, lifecycle>>

\* the time source and the time kept for the connection
timeVars == <<now, timeLastDataReceived, timeLastRequestStarted, wakes,
              wakesAfterTimeout>>

\* the timeouts the monitor works with
timeoutVars == <<inactivityTimeout, requestTimeout>>

\* a connection handed over to a handler
upgradeVars == <<upgraded, handlerReceived>>

\* the reaper thread, and what has happened to the ConnectionState
reaperVars == <<stopReaper, reaper, brokenFired, taken>>

\* a call of ParseSize
sizeVars == <<stringSize, size>>

\* the ResourceSpace objects and the unregistration delegates that capture them
closureVars == <<spaces, nextSpace, held, lastCall>>

\* the threads and the mutex
threadVars == <<mutex, at, stopMonitor>>

vars == <<headerLineLimit, configuration, resources, connections, wire,
          delivered, chunks, peerVars, registryVars, lifecycleVars, timeVars,
          timeoutVars, upgradeVars, reaperVars, sizeVars, closureVars,
          threadVars>>

\* ------------------------------------------------------------------------
\* Resources and handlers
\* ------------------------------------------------------------------------

NoHandler == "nullptr"

Seg_foo == <<"f","o","o">>

Seg_bye == <<"b","y","e">>

Seg_bar == <<"b","a","r">>

Seg_baz == <<"b","a","z">>

Body_Hello == <<"H","e","l","l","o","!">>

Body_BadRequest == <<"B","a","d","R","e","q","u","e","s","t",".",CR,LF>>

Value_13 == <<"1","3">>

Value_TextPlain == <<"t","e","x","t","/","p","l","a","i","n">>

\* a Client::Response
NewResponse == [statusCode |-> 0, status |-> "", headers |-> EmptyHeaders,
                body |-> <<>>]

Value_99 == <<"9","9">>

Value_Chunked == <<"c","h","u","n","k","e","d">>

Value_Upgrade == <<"u","p","g","r","a","d","e">>

\* the resource delegates registered by the embedder of the model:
\* "hello" and "wide" answer 200 with a body, "sized" sets a Content-Length
\* of its own, "chunked" a Transfer-Encoding, "upgrader" answers 101 and
\* takes the connection, and every other one ("closer") answers 200 without
\* a body and asks to close
HandlerResponse(handler, request) ==
    IF handler = "upgrader"
    THEN [NewResponse EXCEPT !.statusCode = 101,
                             !.status = "Switching Protocols",
                             !.headers = AddHeader(EmptyHeaders,
                                             ConnectionName, Value_Upgrade)]
    ELSE IF handler \in {"hello", "wide"}
    THEN [NewResponse EXCEPT !.statusCode = 200, !.status = "OK",
                             !.body = Body_Hello]
    ELSE IF handler = "sized"
    THEN [NewResponse EXCEPT !.statusCode = 200, !.status = "OK",
                             !.headers = AddHeader(EmptyHeaders,
                                             ContentLengthName, Value_99),
                             !.body = Body_Hello]
    ELSE IF handler = "chunked"
    THEN [NewResponse EXCEPT !.statusCode = 200, !.status = "OK",
                             !.headers = AddHeader(EmptyHeaders,
                                             TransferEncodingName, Value_Chunked),
                             !.body = Body_Hello]
    ELSE [NewResponse EXCEPT !.statusCode = 200, !.status = "OK",
                             !.headers = AddHeader(EmptyHeaders,
                                             ConnectionName, CloseToken)]

\* the text of a decimal number (StringUtils::sprintf("%zu", n))
RECURSIVE SizeToString(_)
SizeToString(n) ==
    IF n < 10 THEN <<Digits[n + 1]>>
    ELSE SizeToString(n \div 10) \o <<Digits[(n % 10) + 1]>>

\* the canned responses of DataReceived; a response text is kept as its
\* status line, header lines and body
CannedResponse(statusCode, status) ==
    [statusCode |-> statusCode, status |-> status,
     headers |-> AddHeader(AddHeader(EmptyHeaders, ContentLengthName, Value_13),
                           ContentTypeName, Value_TextPlain),
     body |-> Body_BadRequest]

\* the walk down the resource tree with a slip: one subspace is entered, not
\* one after the other
FindResource_OneSubspace(tree, node, resourcePath) ==
    IF resourcePath = <<>> THEN [node |-> node, resourcePath |-> resourcePath]
    ELSE IF Append(node, Head(resourcePath)) \in DOMAIN tree
    THEN [node |-> Append(node, Head(resourcePath)),
          resourcePath |-> Tail(resourcePath)]
    ELSE [node |-> node, resourcePath |-> resourcePath]

\* the walk down the resource tree: the node reached and the path left over
RECURSIVE FindResource(_, _, _)
FindResource(tree, node, resourcePath) ==
    IF resourcePath = <<>> THEN [node |-> node, resourcePath |-> resourcePath]
    ELSE IF Append(node, Head(resourcePath)) \in DOMAIN tree
    THEN FindResource(tree, Append(node, Head(resourcePath)), Tail(resourcePath))
    ELSE [node |-> node, resourcePath |-> resourcePath]

\* ------------------------------------------------------------------------
\* Connection (the transport's connection object, as the engine drives it)
\* ------------------------------------------------------------------------

\* a ConnectionState for a new connection.  connection.events records the
\* calls made on the Connection and the handler invocations, in order;
\* processed and received are history: the requests popped by
\* TryRequestAssembly with the buffer left at that moment, and the count of
\* bytes received so far
NewConnectionState ==
    [connection |-> [events |-> <<>>],
     concatenateBuffer |-> <<>>,
     nextRequest |-> NewRequest,
     processed |-> <<>>,
     received |-> 0]

SendData(connectionState, responseText) ==
    [connectionState EXCEPT !.connection.events =
        Append(@, [type |-> "send", response |-> responseText])]

Break(connectionState) ==
    [connectionState EXCEPT !.connection.events = Append(@, [type |-> "break"])]

InvokeHandler(connectionState, handler, request) ==
    [connectionState EXCEPT !.connection.events =
        Append(@, [type |-> "handler", handler |-> handler, request |-> request])]

\* ------------------------------------------------------------------------
\* Server::Impl::TryRequestAssembly
\* ------------------------------------------------------------------------

Nullptr == [state |-> "nullptr"]

\* TryRequestAssembly, from what ParseRequest handed back
Assemble(connectionState, parsed) ==
    IF ~IsProcessed(parsed.request)
    THEN [connectionState |->
             [connectionState EXCEPT
                 !.concatenateBuffer = SubstrFrom(@, parsed.charactersAccepted),
                 !.nextRequest = parsed.request],
          request |-> Nullptr]
    ELSE [connectionState |->
             [connectionState EXCEPT
                 !.concatenateBuffer = SubstrFrom(@, parsed.charactersAccepted),
                 !.nextRequest = NewRequest,
                 !.processed = Append(@,
                     [request |-> parsed.request,
                      buffer |-> SubstrFrom(connectionState.concatenateBuffer,
                                            parsed.charactersAccepted),
                      received |-> connectionState.received])],
          request |-> parsed.request]

TryRequestAssembly(connectionState) ==
    Assemble(connectionState,
             ParseRequest(connectionState.nextRequest,
                          connectionState.concatenateBuffer,
                          headerLineLimit, configuration.Host))

\* ------------------------------------------------------------------------
\* Server::Impl::DataReceived
\* ------------------------------------------------------------------------

\* SetContentLength with a slip: a Content-Length of the delegate is not
\* looked for
SetContentLength_Always(response) ==
    IF ~HasHeader(response.headers, TransferEncodingName) /\ response.body # <<>>
    THEN [response EXCEPT !.headers =
             AddHeader(@, ContentLengthName, SizeToString(Len(response.body)))]
    ELSE response

\* the Content-Length the engine adds to the response of a resource delegate
SetContentLength(response) ==
    IF /\ ~HasHeader(response.headers, TransferEncodingName)
       /\ response.body # <<>>
       /\ ~HasHeader(response.headers, ContentLengthName)
    THEN [response EXCEPT !.headers =
             AddHeader(@, ContentLengthName, SizeToString(Len(response.body)))]
    ELSE response

\* the response with the validity of the request left out of the test
RespondTo_InvalidDispatched(connectionState, request) ==
    IF request.state = "Complete"
    THEN
    LET originalResourcePath == request.target.path
        resourcePath ==
            IF originalResourcePath # <<>> /\ Head(originalResourcePath) = <<>>
            THEN Tail(originalResourcePath) ELSE originalResourcePath
        found == IF DOMAIN resources = {}
                 THEN [node |-> <<>>, resourcePath |-> resourcePath]
                 ELSE FindResource(resources, <<>>, resourcePath)
    IN  IF DOMAIN resources # {} /\ resources[found.node] # NoHandler
        THEN
        LET handled == [request EXCEPT !.target.path = found.resourcePath]
        IN  [connectionState |->
                 InvokeHandler(connectionState, resources[found.node], handled),
             responseText |->
                 SetContentLength(HandlerResponse(resources[found.node],
                                                  handled))]
        ELSE [connectionState |-> connectionState,
              responseText |-> CannedResponse(404, "Not Found")]
    ELSE IF request.state = "Error" /\ request.responseStatusCode = 413
    THEN [connectionState |-> connectionState,
          responseText |-> CannedResponse(request.responseStatusCode,
                                          request.responseStatusPhrase)]
    ELSE [connectionState |-> connectionState,
          responseText |-> CannedResponse(400, "Bad Request")]

\* the response to a request that TryRequestAssembly returned: the
\* connection state after the handler call (if any) and the response text
RespondTo(connectionState, request) ==
    IF request.state = "Complete" /\ request.valid
    THEN
    LET originalResourcePath == request.target.path
        resourcePath ==
            IF originalResourcePath # <<>> /\ Head(originalResourcePath) = <<>>
            THEN Tail(originalResourcePath) ELSE originalResourcePath
        found == IF DOMAIN resources = {}
                 THEN [node |-> <<>>, resourcePath |-> resourcePath]
                 ELSE FindResource(resources, <<>>, resourcePath)
    IN  IF DOMAIN resources # {} /\ resources[found.node] # NoHandler
        THEN
        LET handled == [request EXCEPT !.target.path = found.resourcePath]
        IN  [connectionState |->
                 InvokeHandler(connectionState, resources[found.node], handled),
             responseText |->
                 SetContentLength(HandlerResponse(resources[found.node],
                                                  handled))]
        ELSE [connectionState |-> connectionState,
              responseText |-> CannedResponse(404, "Not Found")]
    ELSE IF request.state = "Error" /\ request.responseStatusCode = 413
    THEN [connectionState |-> connectionState,
          responseText |-> CannedResponse(request.responseStatusCode,
                                          request.responseStatusPhrase)]
    ELSE [connectionState |-> connectionState,
          responseText |-> CannedResponse(400, "Bad Request")]

\* AfterResponse with a slip: the loop stops after a request that is not
\* valid, as it does after a request in Error
AfterResponse_StopOnInvalid(connectionState, request) ==
    IF request.state = "Complete" /\ request.valid
    THEN LET connectionTockens ==
                 GetHeaderMultiValues(request.headers, ConnectionName)
             closeRequested ==
                 \E i \in 1..Len(connectionTockens) :
                     connectionTockens[i] = CloseToken
         IN  [connectionState |-> IF closeRequested THEN Break(connectionState)
                                  ELSE connectionState,
              continue |-> TRUE]
    ELSE [connectionState |-> IF request.state = "Error"
                              THEN Break(connectionState)
                              ELSE connectionState,
          continue |-> FALSE]

\* what DataReceived does with a request after its response has been sent:
\* the connection state, and whether the loop goes on
AfterResponse(connectionState, request) ==
    IF request.state = "Complete"
    THEN LET connectionTockens ==
                 GetHeaderMultiValues(request.headers, ConnectionName)
             closeRequested ==
                 \E i \in 1..Len(connectionTockens) :
                     connectionTockens[i] = CloseToken
         IN  [connectionState |-> IF closeRequested THEN Break(connectionState)
                                  ELSE connectionState,
              continue |-> TRUE]
    ELSE [connectionState |-> IF request.state = "Error"
                              THEN Break(connectionState)
                              ELSE connectionState,
          continue |-> FALSE]

RECURSIVE RequestLoop(_)

\* the response text goes to the connection
SendResponse(responded) ==
    SendData(responded.connectionState, responded.responseText)

\* the end of an iteration of the for (;;) loop
LoopOrStop(after) ==
    IF after.continue THEN RequestLoop(after.connectionState)
    ELSE after.connectionState

\* ProcessRequest with a slip: a request in Error breaks the connection
\* without a response being sent
ProcessRequest_SilentError(assembly) ==
    IF assembly.request = Nullptr THEN assembly.connectionState
    ELSE IF assembly.request.state = "Error"
    THEN Break(assembly.connectionState)
    ELSE LoopOrStop(
             AfterResponse(
                 SendResponse(RespondTo(assembly.connectionState,
                                        assembly.request)),
                 assembly.request))

\* an iteration of the for (;;) loop, from what TryRequestAssembly returned
ProcessRequest(assembly) ==
    IF assembly.request = Nullptr THEN assembly.connectionState
    ELSE LoopOrStop(
             AfterResponse(
                 SendResponse(RespondTo(assembly.connectionState,
                                        assembly.request)),
                 assembly.request))

\* the for (;;) loop of DataReceived
RequestLoop(connectionState) == ProcessRequest(TryRequestAssembly(connectionState))

DataReceived(connectionState, data) ==
    RequestLoop([connectionState EXCEPT
        !.concatenateBuffer = @ \o data,
        !.received = @ + Len(data)])


\* ------------------------------------------------------------------------
\* Server::RegisterResource
\* ------------------------------------------------------------------------

\* the subspaces of a node
Subspaces(tree, node) ==
    {p \in DOMAIN tree : Len(p) = Len(node) + 1 /\ SubSeq(p, 1, Len(node)) = node}

\* RegisterWalk with a slip: the subspace is created before the handler of
\* the space is looked at
RECURSIVE RegisterWalk_GrowsFirst(_, _, _)
RegisterWalk_GrowsFirst(tree, space, resourceSubspacePath) ==
    IF resourceSubspacePath = <<>>
    THEN [tree |-> tree, space |-> space, blocked |-> FALSE]
    ELSE LET subspace == Append(space, Head(resourceSubspacePath))
             grown == IF subspace \in DOMAIN tree THEN tree
                      ELSE [p \in DOMAIN tree \cup {subspace} |->
                               IF p = subspace THEN NoHandler ELSE tree[p]]
         IN  IF tree[space] # NoHandler
             THEN [tree |-> grown, space |-> space, blocked |-> TRUE]
             ELSE RegisterWalk_GrowsFirst(grown, subspace,
                                          Tail(resourceSubspacePath))

\* the walk of RegisterResource along the path, creating the missing
\* subspaces: the tree, the space reached, and whether a handler was met
RECURSIVE RegisterWalk(_, _, _)
RegisterWalk(tree, space, resourceSubspacePath) ==
    IF resourceSubspacePath = <<>>
    THEN [tree |-> tree, space |-> space, blocked |-> FALSE]
    ELSE IF tree[space] # NoHandler
    THEN [tree |-> tree, space |-> space, blocked |-> TRUE]
    ELSE LET subspace == Append(space, Head(resourceSubspacePath))
             grown == IF subspace \in DOMAIN tree THEN tree
                      ELSE [p \in DOMAIN tree \cup {subspace} |->
                               IF p = subspace THEN NoHandler ELSE tree[p]]
         IN  RegisterWalk(grown, subspace, Tail(resourceSubspacePath))

\* RegisterResource with a slip: the subspaces of the space reached are not
\* looked at
RegisterResource_SubspacesIgnored(tree, resourceSubspacePath, resourceDelegate) ==
    LET rooted == IF DOMAIN tree = {} THEN [p \in {<<>>} |-> NoHandler]
                  ELSE tree
        walk == RegisterWalk(rooted, <<>>, resourceSubspacePath)
    IN  IF ~walk.blocked /\ walk.tree[walk.space] = NoHandler
        THEN [tree |-> [walk.tree EXCEPT ![walk.space] = resourceDelegate],
              registered |-> TRUE]
        ELSE [tree |-> walk.tree, registered |-> FALSE]

\* RegisterResource: the tree after the call and whether an
\* unregistration delegate was returned
RegisterResource(tree, resourceSubspacePath, resourceDelegate) ==
    LET rooted == IF DOMAIN tree = {} THEN [p \in {<<>>} |-> NoHandler]
                  ELSE tree
        walk == RegisterWalk(rooted, <<>>, resourceSubspacePath)
    IN  IF walk.blocked
        THEN [tree |-> walk.tree, registered |-> FALSE]
        ELSE IF /\ walk.tree[walk.space] = NoHandler
                /\ Subspaces(walk.tree, walk.space) = {}
        THEN [tree |-> [walk.tree EXCEPT ![walk.space] = resourceDelegate],
              registered |-> TRUE]
        ELSE [tree |-> walk.tree, registered |-> FALSE]

\* the superspace of a space that is not the root
Superspace(space) == SubSeq(space, 1, Len(space) - 1)

\* the tree without the given space
Erase(tree, space) == [p \in DOMAIN tree \ {space} |-> tree[p]]

\* the loop of the unregistration delegate with a slip: it stops after the
\* first space
UnregisterWalk_OneSpace(tree, currentSpace) ==
    IF tree[currentSpace] = NoHandler /\ Subspaces(tree, currentSpace) = {}
    THEN IF currentSpace = <<>> THEN <<>> ELSE Erase(tree, currentSpace)
    ELSE tree

\* the loop of the unregistration delegate: a space with neither handler nor
\* subspaces is erased from its superspace (the root: resources becomes
\* nullptr), and the walk goes on upwards while the superspace has no
\* subspaces left
RECURSIVE UnregisterWalk(_, _)
UnregisterWalk(tree, currentSpace) ==
    IF tree[currentSpace] = NoHandler /\ Subspaces(tree, currentSpace) = {}
    THEN IF currentSpace = <<>> THEN <<>>
         ELSE IF Subspaces(Erase(tree, currentSpace), Superspace(currentSpace)) = {}
         THEN UnregisterWalk(Erase(tree, currentSpace), Superspace(currentSpace))
         ELSE Erase(tree, currentSpace)
    ELSE tree

\* the unregistration delegate returned by RegisterResource for the space
Unregister(tree, space) ==
    UnregisterWalk([tree EXCEPT ![space] = NoHandler], space)

\* ------------------------------------------------------------------------
\* The requests of the client
\* ------------------------------------------------------------------------

Line(s) == s \o CRLF

\* n bytes "a"
Pad(n) == [i \in 1..n |-> "a"]

HostLine == Line(<<"H","o","s","t",":",SP,"h">>)

\* a request line "GET <target> HTTP/1.1" and the header Host
Get(target) == Line(<<"G","E","T",SP>> \o target \o <<SP>> \o HTTP11) \o HostLine

\* GET /a: well-formed, no resource registered for it
Req_Plain == Get(<<"/","a">>) \o CRLF

\* GET /foo/bar and GET /foo/baz: in the subspace of the handler "hello"
Req_FooBar == Get(<<"/","f","o","o","/","b","a","r">>) \o CRLF

Req_FooBaz == Get(<<"/","f","o","o","/","b","a","z">>) \o CRLF

\* GET /bye: in the subspace of the handler "closer"
Req_Bye == Get(<<"/","b","y","e">>) \o CRLF

\* the client asks to close
Req_Close == Get(<<"/","a">>) \o Line(<<"C","o","n","n","e","c","t","i","o","n",":",SP,"c","l","o","s","e">>) \o CRLF

Req_FooClose == Get(<<"/","f","o","o","/","b","a","r">>) \o Line(<<"C","o","n","n","e","c","t","i","o","n",":",SP,"x",",",SP,"c","l","o","s","e">>) \o CRLF

\* protocol other than HTTP/1.1
Req_BadProtocol == Line(<<"G","E","T",SP,"/","f","o","o","/","b","a","r",SP,"F","o","o">>) \o HostLine \o CRLF

\* no method, no target
Req_NoMethod == Line(<<SP,"/","a",SP,"H","T","T","P","/","1",".","1">>) \o HostLine \o CRLF

Req_NoTarget == Line(<<"G","E","T",SP,"H","T","T","P","/","1",".","1">>) \o HostLine \o CRLF

\* a header line without a colon
Req_Damaged == Line(<<"G","E","T",SP,"/","f","o","o","/","b","a","r",SP,"H","T","T","P","/","1",".","1">>) \o Line(<<"X",SP,"y">>) \o HostLine \o CRLF

\* no Host header
Req_NoHost == Line(<<"G","E","T",SP,"/","a",SP,"H","T","T","P","/","1",".","1">>) \o CRLF

\* the host of the target is not the Host header
Req_HostMismatch == Get(<<"h","t","t","p",":","/","/","g","/","a">>) \o CRLF

\* a body of two bytes
Req_Post == Line(<<"P","O","S","T",SP,"/","a",SP,"H","T","T","P","/","1",".","1">>) \o HostLine
            \o Line(<<"C","o","n","t","e","n","t","-","L","e","n","g","t","h",":",SP,"2">>) \o CRLF \o <<"h","i">>

\* Content-Length is not a number
Req_LengthNotNumber == Get(<<"/","a">>) \o Line(<<"C","o","n","t","e","n","t","-","L","e","n","g","t","h",":",SP,"2","x">>) \o CRLF

\* Content-Length does not fit size_t
Req_LengthOverflow == Get(<<"/","a">>) \o Line(<<"C","o","n","t","e","n","t","-","L","e","n","g","t","h",":",SP,"9","9","9","9","9","9","9","9","9">>) \o CRLF

\* Content-Length is MAX_CONTENT_LENGTH + 1, and MAX_CONTENT_LENGTH
Req_LengthTooLarge == Get(<<"/","a">>) \o Line(<<"C","o","n","t","e","n","t","-","L","e","n","g","t","h",":",SP,"1","0","0","0","0","0","0","1">>) \o CRLF

Req_LengthMax == Get(<<"/","a">>) \o Line(<<"C","o","n","t","e","n","t","-","L","e","n","g","t","h",":",SP,"1","0","0","0","0","0","0","0">>) \o CRLF

\* a request line of exactly ConfiguredLineLimit bytes, and of one byte more
Req_LineAtLimit == Get(<<"/">> \o Pad(ConfiguredLineLimit - 14)) \o CRLF

Req_LineOverLimit == Get(<<"/">> \o Pad(ConfiguredLineLimit - 13)) \o CRLF

\* a header line of more than ConfiguredLineLimit bytes
Req_HeaderOverLimit == Get(<<"/","a">>) \o Line(<<"X",":",SP>> \o Pad(ConfiguredLineLimit)) \o CRLF

\* the requests that can be followed by another request on the wire
LeadingRequests ==
    {Req_Plain, Req_FooBar, Req_Bye, Req_Close, Req_FooClose, Req_BadProtocol,
     Req_Damaged, Req_NoHost, Req_Post, Req_LengthOverflow, Req_LineOverLimit,
     Req_LineAtLimit}

\* the requests that can follow another request on the wire
FollowingRequests == {Req_Plain, Req_FooBaz}

AllRequests ==
    LeadingRequests \cup FollowingRequests \cup
    {Req_NoMethod, Req_NoTarget, Req_HostMismatch, Req_LengthNotNumber,
     Req_LengthTooLarge, Req_LengthMax, Req_HeaderOverLimit}

\* the wires: one request, or leading requests with a following request
Wires ==
    {<<r>> : r \in AllRequests} \cup
    {w \in UNION {[1..n -> LeadingRequests \cup FollowingRequests] :
                      n \in 2..MaxRequests} :
        /\ \A i \in 1..(Len(w) - 1) : w[i] \in LeadingRequests
        /\ \A i \in 2..Len(w) : w[i] \in FollowingRequests}

\* the bytes of the first n requests of a wire
RECURSIVE Flatten(_, _)
Flatten(w, n) == IF n = 0 THEN <<>> ELSE Flatten(w, n - 1) \o w[n]

WireBytes == Flatten(wire, Len(wire))

\* the configuration item IdleTimeout of the tests, in seconds
IdleTimeout == 100

\* the default of the configuration item InactivityTimeout, in seconds
InactivityTimeout == 1

\* the default of the configuration item RequestTimeout, in seconds
RequestTimeout == 60

\* the transports of the embedder
Transports == {1, 2}

\* Server::Impl::transport is nullptr
NoTransport == 0

\* the embedder has called neither Mobilize nor Demobilize yet
NoLifecycleCall ==
    [count |-> 0, call |-> "none", wasMobilized |-> FALSE, result |-> FALSE,
     releases |-> 0]

\* the embedder has not called RegisterResource yet
NoRegistration ==
    [count |-> 0, call |-> "none", path |-> <<>>, returned |-> FALSE,
     undone |-> FALSE, before |-> <<>>]

\* the resources the embedder registers
EmbedderResources == {<<<<Seg_foo>>, "hello">>, <<<<Seg_bye>>, "closer">>}

Registered(path) == path \in DOMAIN resources /\ resources[path] # NoHandler

\* ------------------------------------------------------------------------
\* Specification
\* ------------------------------------------------------------------------

\* the threads: the transport's callback threads for new connections, data
\* and broken notifications, the reaper, the timeout monitor and the embedder
Threads == {"new", "data", "broken", "reaper", "monitor", "embedder"}

\* the threads after the construction of the server: the reaper has been
\* started and is about to lock the mutex, the monitor does not run
ThreadsStarted ==
    [t \in Threads |->
        IF t = "reaper" THEN "lock"
        ELSE IF t = "monitor" THEN "stopped"
        ELSE "idle"]

\* no unregistration delegate has been called
NoClosureCall ==
    [made |-> FALSE, path |-> <<>>, first |-> FALSE, before |-> <<>>]

\* ParseSize has not been called
NotParsed == [result |-> "none", number |-> 0]

\* the server after its construction, and a client with one of the wires
\* the state after construction, with the inputs of the client and of the
\* caller of ParseSize drawn from the given sets
InitWith(wires, texts) ==
    /\ stringSize \in texts
    /\ size = NotParsed
    /\ spaces = <<>>
    /\ nextSpace = 1
    /\ held = {}
    /\ lastCall = NoClosureCall
    /\ mutex = "free"
    /\ at = ThreadsStarted
    /\ stopMonitor = FALSE
    /\ headerLineLimit = DEFAULT_HEADER_LINE_LIMIT
    /\ configuration = [Host |-> <<>>]
    /\ resources = <<>>
    /\ connections = <<>>
    /\ wire \in wires
    /\ delivered = 0
    /\ chunks = 0
    /\ establishedConnections = {}
    /\ brokenConnections = {}
    /\ oldBrokenConnections = {}
    /\ delegate = "none"
    /\ destroyedBy = "none"
    /\ registration = NoRegistration
    /\ closures = {}
    /\ transport = NoTransport
    /\ bound = [t \in Transports |-> FALSE]
    /\ server = "alive"
    /\ lifecycle = NoLifecycleCall
    /\ now = 0
    /\ timeLastDataReceived = 0
    /\ timeLastRequestStarted = 0
    /\ wakes = 0
    /\ wakesAfterTimeout = 0
    /\ inactivityTimeout = InactivityTimeout
    /\ requestTimeout = RequestTimeout
    /\ upgraded = FALSE
    /\ handlerReceived = <<>>
    /\ stopReaper = FALSE
    /\ reaper = "running"
    /\ brokenFired = 0
    /\ taken = FALSE

\* the state after construction: ParseSize is called by the parser only
InitOn(wires) == InitWith(wires, {<<>>})

Init == InitOn(Wires)

\* Server::SetConfigurationItem("HeaderLineLimit", value), called by the
\* embedder before it mobilizes the server
SetConfigurationItem ==
    /\ connections = <<>>
    /\ headerLineLimit = DEFAULT_HEADER_LINE_LIMIT
    /\ headerLineLimit' = ConfiguredLineLimit
    /\ UNCHANGED <<threadVars, closureVars, sizeVars, reaperVars, timeoutVars, upgradeVars, lifecycleVars, timeVars, registryVars, configuration, resources, connections, wire, delivered, chunks,
                   peerVars>>

\* a call of Server::RegisterResource by the embedder: the tree after the
\* call, and the unregistration delegate if one is returned.  registration
\* keeps what the embedder saw of its last call: the call, its path, whether
\* a delegate came back, whether it was the delegate of the call before it,
\* and the tree before the call (before the call it undoes)
RegisterCall(path, resourceDelegate) ==
    /\ resources' = RegisterResource(resources, path, resourceDelegate).tree
    /\ registration' =
           [count |-> registration.count + 1, call |-> "register",
            path |-> path,
            returned |-> RegisterResource(resources, path,
                                          resourceDelegate).registered,
            undone |-> FALSE,
            before |-> resources]
    /\ closures' =
           IF RegisterResource(resources, path, resourceDelegate).registered
           THEN closures \cup {path} ELSE closures

\* Server::RegisterResource, called by the embedder before it mobilizes
RegisterResourceCall ==
    /\ connections = <<>>
    /\ \E res \in EmbedderResources :
          /\ ~Registered(res[1])
          /\ RegisterCall(res[1], res[2])
    /\ UNCHANGED <<threadVars, closureVars, sizeVars, reaperVars, timeoutVars, upgradeVars, lifecycleVars, timeVars, headerLineLimit, configuration, connections,
                   wire, delivered, chunks, peerVars>>

\* Server::Impl::NewConnection: the client connects to the mobilized server
NewConnection ==
    /\ connections = <<>>
    /\ headerLineLimit = ConfiguredLineLimit
    /\ \A res \in EmbedderResources : Registered(res[1])
    /\ connections' = <<NewConnectionState>>
    /\ establishedConnections' = {1}
    /\ UNCHANGED <<threadVars, closureVars, sizeVars, reaperVars, timeoutVars, upgradeVars, lifecycleVars, timeVars, registryVars, headerLineLimit, configuration, resources, wire, delivered, chunks,
                   brokenConnections, oldBrokenConnections, delegate, destroyedBy>>

\* the sizes the next chunk of the wire can have: one byte, everything that
\* is left, or up to and including any CR or LF that is left (a chunk that
\* ends between a CR and its LF, or at the end of a line)
ChunkSizes ==
    {n \in 1..(Len(WireBytes) - delivered) :
        \/ n = 1
        \/ n = Len(WireBytes) - delivered
        \/ WireBytes[delivered + n] \in {CR, LF}}

\* the data received delegate of the connection is called with the next
\* chunk of the wire
DataReceivedDelegate ==
    /\ connections # <<>>
    /\ chunks < MaxChunks
    /\ \E n \in ChunkSizes :
          /\ connections' = <<DataReceived(connections[1],
                                  Substr(WireBytes, delivered, n))>>
          /\ delivered' = delivered + n
    /\ chunks' = chunks + 1
    /\ UNCHANGED <<threadVars, closureVars, sizeVars, reaperVars, timeoutVars, upgradeVars, lifecycleVars, timeVars, registryVars, headerLineLimit, configuration, resources, wire, peerVars>>

Next ==
    \/ SetConfigurationItem
    \/ RegisterResourceCall
    \/ NewConnection
    \/ DataReceivedDelegate

Spec == Init /\ [][Next]_vars

\* ------------------------------------------------------------------------
\* The resource tree: the embedder registers and unregisters at any of the
\* paths, in any order, before and after the client connects
\* ------------------------------------------------------------------------

\* the paths the embedder registers at
RegistrationPaths ==
    {<<>>, <<Seg_foo>>, <<Seg_foo, Seg_bar>>, <<Seg_foo, Seg_baz>>, <<Seg_bye>>}

\* the resource delegate the embedder registers at a path
DelegateOf(path) ==
    IF path = <<>> THEN "wide"
    ELSE IF path = <<Seg_foo>> THEN "hello"
    ELSE IF path = <<Seg_foo, Seg_bar>> THEN "sized"
    ELSE IF path = <<Seg_foo, Seg_baz>> THEN "chunked"
    ELSE "closer"

\* the wires of the client in the runs with registrations
ResourceWires == {<<Req_Plain>>, <<Req_FooBar>>, <<Req_FooBaz>>, <<Req_Bye>>}

InitResources == InitOn(ResourceWires)

\* Server::RegisterResource, called at any time with any of the paths
RegisterResourceAnywhere ==
    /\ registration.count < MaxRegistrations
    /\ \E path \in RegistrationPaths : RegisterCall(path, DelegateOf(path))
    /\ UNCHANGED <<threadVars, closureVars, sizeVars, reaperVars, timeoutVars, upgradeVars, lifecycleVars, timeVars, headerLineLimit, configuration, connections,
                   wire, delivered, chunks, peerVars>>

\* the embedder calls an unregistration delegate it holds, once
UnregistrationDelegate ==
    /\ registration.count < MaxRegistrations
    /\ \E path \in closures :
          /\ resources' = Unregister(resources, path)
          /\ closures' = closures \ {path}
          /\ registration' =
                 [count |-> registration.count + 1, call |-> "unregister",
                  path |-> path,
                  returned |-> FALSE,
                  undone |-> /\ registration.call = "register"
                             /\ registration.path = path
                             /\ registration.returned,
                  before |-> registration.before]
    /\ UNCHANGED <<threadVars, closureVars, sizeVars, reaperVars, timeoutVars, upgradeVars, lifecycleVars, timeVars, headerLineLimit, configuration, connections,
                   wire, delivered, chunks, peerVars>>

\* Server::Impl::NewConnection: the client connects
ClientConnects ==
    /\ connections = <<>>
    /\ connections' = <<NewConnectionState>>
    /\ establishedConnections' = {1}
    /\ UNCHANGED <<threadVars, closureVars, sizeVars, reaperVars, timeoutVars, upgradeVars, lifecycleVars, timeVars, registryVars, headerLineLimit, configuration, resources, wire,
                   delivered, chunks, brokenConnections, oldBrokenConnections,
                   delegate, destroyedBy>>

NextResources ==
    \/ RegisterResourceAnywhere
    \/ UnregistrationDelegate
    \/ ClientConnects
    \/ DataReceivedDelegate

SpecResources == InitResources /\ [][NextResources]_vars

\* ------------------------------------------------------------------------
\* The Host header: the embedder may set the configuration item Host before
\* the client connects
\* ------------------------------------------------------------------------

\* a request whose target names the host of its Host header
Req_TargetHost == Get(<<"h","t","t","p",":","/","/","h","/","a">>) \o CRLF

\* the wires of the client in the runs with a Host item
HostWires ==
    {<<Req_Plain>>, <<Req_NoHost>>, <<Req_HostMismatch>>, <<Req_TargetHost>>}

\* the values the embedder gives to the configuration item Host
HostItems == {<<"h">>, <<"g">>}

InitHost == InitOn(HostWires)

\* Server::SetConfigurationItem("Host", value)
SetHostItem ==
    /\ connections = <<>>
    /\ configuration.Host = <<>>
    /\ \E value \in HostItems : configuration' = [configuration EXCEPT !.Host = value]
    /\ UNCHANGED <<threadVars, closureVars, sizeVars, reaperVars, timeoutVars, upgradeVars, lifecycleVars, timeVars, registryVars, headerLineLimit, resources, connections, wire,
                   delivered, chunks, peerVars>>

NextHost ==
    \/ SetHostItem
    \/ ClientConnects
    \/ DataReceivedDelegate

SpecHost == InitHost /\ [][NextHost]_vars

\* ------------------------------------------------------------------------
\* Mobilize, Demobilize and the destruction of the server
\* ------------------------------------------------------------------------

\* Server::Mobilize with a transport whose BindNetwork returns the given
\* value: the transport is stored, then bound; if the binding fails the
\* server's transport is set to nullptr
Mobilize(newTransport, bindNetwork) ==
    /\ server = "alive"
    /\ lifecycle.count < MaxLifecycleCalls
    /\ transport' = IF bindNetwork THEN newTransport ELSE NoTransport
    /\ bound' = IF bindNetwork THEN [bound EXCEPT ![newTransport] = TRUE]
                ELSE bound
    /\ lifecycle' = [count |-> lifecycle.count + 1, call |-> "Mobilize",
                     wasMobilized |-> transport # NoTransport,
                     result |-> bindNetwork, releases |-> 0]
    /\ UNCHANGED server

\* the embedder calls Mobilize
MobilizeCall ==
    /\ \E newTransport \in Transports, bindNetwork \in BOOLEAN :
          Mobilize(newTransport, bindNetwork)
    /\ UNCHANGED <<threadVars, closureVars, sizeVars, reaperVars, timeoutVars, upgradeVars, headerLineLimit, configuration, resources, connections, wire,
                   delivered, chunks, peerVars, registryVars, timeVars>>

\* Server::Demobilize: the transport, if there is one, is released
Demobilize(call) ==
    /\ transport' = NoTransport
    /\ bound' = IF transport # NoTransport
                THEN [bound EXCEPT ![transport] = FALSE] ELSE bound
    /\ lifecycle' = [count |-> lifecycle.count + 1, call |-> call,
                     wasMobilized |-> transport # NoTransport,
                     result |-> FALSE,
                     releases |-> IF transport # NoTransport THEN 1 ELSE 0]

\* the embedder calls Demobilize
DemobilizeCall ==
    /\ server = "alive"
    /\ lifecycle.count < MaxLifecycleCalls
    /\ Demobilize("Demobilize")
    /\ UNCHANGED <<threadVars, closureVars, sizeVars, reaperVars, timeoutVars, upgradeVars, server, headerLineLimit, configuration, resources, connections,
                   wire, delivered, chunks, peerVars, registryVars, timeVars>>

\* Server::~Server: Demobilize, then the reaper is stopped and joined
DestroyServer ==
    /\ server = "alive"
    /\ delegate = "none"
    /\ oldBrokenConnections = {}
    /\ Demobilize("~Server")
    /\ server' = "destroyed"
    /\ stopReaper' = TRUE
    /\ reaper' = "done"
    /\ UNCHANGED <<threadVars, closureVars, sizeVars, brokenFired, taken, timeoutVars, upgradeVars, headerLineLimit, configuration, resources, connections, wire,
                   delivered, chunks, peerVars, registryVars, timeVars>>

\* the wires of the client in the runs about the transport
LifecycleWires == {<<Req_Plain>>}

InitLifecycle == InitOn(LifecycleWires)

NextLifecycle ==
    \/ MobilizeCall
    \/ DemobilizeCall
    \/ DestroyServer

SpecLifecycle == InitLifecycle /\ [][NextLifecycle]_vars

\* ------------------------------------------------------------------------
\* The timeout monitor.  Time is counted in seconds.
\* ------------------------------------------------------------------------

\* the response the monitor makes for a connection that timed out
TimeoutResponse ==
    [NewResponse EXCEPT !.statusCode = 408, !.status = "Request Timeout",
                        !.headers = AddHeader(EmptyHeaders, ConnectionName,
                                              CloseToken)]

\* the monitor has sent its response on the connection
TimeoutSent(connectionState) ==
    \E i \in 1..Len(connectionState.connection.events) :
        connectionState.connection.events[i] =
            [type |-> "send", response |-> TimeoutResponse]

\* the connection has not been broken by the engine
Live(connectionState) ==
    \A i \in 1..Len(connectionState.connection.events) :
        connectionState.connection.events[i].type # "break"

\* the request timeout with a slip: the time is taken from the last data
RequestOverdue_SinceLastData(currentTime, lastRequestStarted) ==
    currentTime - timeLastDataReceived > requestTimeout

\* the request timeout: the request has been under way for too long
RequestOverdue(currentTime, lastRequestStarted) ==
    currentTime - lastRequestStarted > requestTimeout

\* the decision of the monitor with a slip: the time of the last data is not
\* looked at
Overdue_RequestOnly(currentTime, lastDataReceived, lastRequestStarted) ==
    RequestOverdue(currentTime, lastRequestStarted)

\* the decision of the monitor for one connection
Overdue(currentTime, lastDataReceived, lastRequestStarted) ==
    \/ currentTime - lastDataReceived > inactivityTimeout
    \/ RequestOverdue(currentTime, lastRequestStarted)

\* the monitor's scan with a slip: a connection that the engine has broken is
\* scanned like the others
Scan_Broken(connectionState, currentTime, lastDataReceived, lastRequestStarted) ==
    IF Overdue(currentTime, lastDataReceived, lastRequestStarted)
    THEN Break(SendData(connectionState, TimeoutResponse))
    ELSE connectionState

\* the monitor's scan of a ConnectionState: a 408 response is sent on a
\* connection that is overdue, and the connection is broken
Scan(connectionState, currentTime, lastDataReceived, lastRequestStarted) ==
    IF /\ Live(connectionState)
       /\ Overdue(currentTime, lastDataReceived, lastRequestStarted)
    THEN Break(SendData(connectionState, TimeoutResponse))
    ELSE connectionState

\* the wires of the client in the runs with the time source
TimeoutWires == {<<Req_Plain>>, <<Req_Post>>}

InitTimeout == InitOn(TimeoutWires)

\* the timeouts the embedder configures: those of the tests
TimeoutItems == {[InactivityTimeout |-> 10, RequestTimeout |-> 1]}

\* Server::SetConfigurationItem("InactivityTimeout", ...) and
\* ("RequestTimeout", ...), called before the server is mobilized
SetTimeoutItems ==
    /\ transport = NoTransport
    /\ lifecycle.count = 0
    /\ inactivityTimeout = InactivityTimeout
    /\ requestTimeout = RequestTimeout
    /\ \E items \in TimeoutItems :
          /\ inactivityTimeout' = items.InactivityTimeout
          /\ requestTimeout' = items.RequestTimeout
    /\ UNCHANGED <<threadVars, closureVars, sizeVars, reaperVars, upgradeVars, headerLineLimit, configuration, resources,
                   connections, wire, delivered, chunks, peerVars, registryVars,
                   lifecycleVars, timeVars>>

\* Server::Mobilize, called once with the first transport
MobilizeOnce ==
    /\ transport = NoTransport
    /\ lifecycle.count = 0
    /\ Mobilize(1, TRUE)
    /\ UNCHANGED <<threadVars, closureVars, sizeVars, reaperVars, timeoutVars, upgradeVars, headerLineLimit, configuration, resources, connections, wire,
                   delivered, chunks, peerVars, registryVars, timeVars>>

\* the client connects to the mobilized server: the clocks of the connection
\* start
ClientConnectsTimed ==
    /\ transport # NoTransport
    /\ connections = <<>>
    /\ connections' = <<NewConnectionState>>
    /\ establishedConnections' = {1}
    /\ timeLastDataReceived' = now
    /\ timeLastRequestStarted' = now
    /\ UNCHANGED <<threadVars, closureVars, sizeVars, reaperVars, timeoutVars, upgradeVars, lifecycleVars, registryVars, headerLineLimit, configuration,
                   resources, wire, delivered, chunks, brokenConnections,
                   oldBrokenConnections, delegate, destroyedBy, now, wakes,
                   wakesAfterTimeout>>

\* the data received delegate on a connection that accepts requests: the time
\* of the last data is set, and the time of the request start when a new
\* request begins
DataReceivedTimed ==
    /\ connections # <<>>
    /\ Live(connections[1])
    /\ chunks < MaxChunks
    /\ \E n \in ChunkSizes :
          /\ connections' = <<DataReceived(connections[1],
                                  Substr(WireBytes, delivered, n))>>
          /\ delivered' = delivered + n
    /\ chunks' = chunks + 1
    /\ timeLastDataReceived' = now
    /\ timeLastRequestStarted' =
           IF Len(connections'[1].processed) > Len(connections[1].processed)
           THEN now ELSE timeLastRequestStarted
    /\ UNCHANGED <<threadVars, closureVars, sizeVars, reaperVars, timeoutVars, upgradeVars, lifecycleVars, registryVars, headerLineLimit, configuration,
                   resources, wire, peerVars, now, wakes, wakesAfterTimeout>>

\* the time source advances by a second
AdvanceTime ==
    /\ now < MaxTime
    /\ now' = now + 1
    /\ UNCHANGED <<threadVars, closureVars, sizeVars, reaperVars, timeoutVars, upgradeVars, headerLineLimit, configuration, resources, connections, wire,
                   delivered, chunks, peerVars, registryVars, lifecycleVars,
                   timeLastDataReceived, timeLastRequestStarted, wakes,
                   wakesAfterTimeout>>

\* a wake of the timeout monitor of the mobilized server
TimeoutMonitor ==
    /\ transport # NoTransport
    /\ wakes < MaxWakes
    /\ wakes' = wakes + 1
    /\ wakesAfterTimeout' =
           IF connections # <<>> /\ TimeoutSent(connections[1])
           THEN wakesAfterTimeout + 1 ELSE wakesAfterTimeout
    /\ connections' =
           IF connections = <<>> \/ upgraded THEN connections
           ELSE <<Scan(connections[1], now, timeLastDataReceived,
                       timeLastRequestStarted)>>
    /\ UNCHANGED <<threadVars, closureVars, sizeVars, reaperVars, timeoutVars, upgradeVars, headerLineLimit, configuration, resources, wire, delivered,
                   chunks, peerVars, registryVars, lifecycleVars, now,
                   timeLastDataReceived, timeLastRequestStarted>>

NextTimeout ==
    \/ SetTimeoutItems
    \/ MobilizeOnce
    \/ ClientConnectsTimed
    \/ DataReceivedTimed
    \/ AdvanceTime
    \/ TimeoutMonitor

SpecTimeout == InitTimeout /\ [][NextTimeout]_vars

\* the wires of the client in the runs with time between two requests
IdleWires == {<<Req_Plain, Req_Plain>>}

InitIdle == InitOn(IdleWires)

SpecIdle == InitIdle /\ [][NextTimeout]_vars

\* ------------------------------------------------------------------------
\* Protocol upgrade: a resource delegate that answers 101 takes the
\* connection
\* ------------------------------------------------------------------------

\* the trailer argument of the resource delegate, with a slip: the bytes
\* behind the request are not handed over
Trailer_Empty(connectionState) == <<>>

\* the trailer argument of the resource delegate: the bytes of the buffer
\* behind the request
Trailer(connectionState) == connectionState.concatenateBuffer

\* the result of DataReceived on a connection the engine keeps
Kept(connectionState) ==
    [connectionState |-> connectionState, upgraded |-> FALSE, trailer |-> <<>>]

RECURSIVE UpgradeLoop(_)

UpgradeLoopOrStop(after) ==
    IF after.continue THEN UpgradeLoop(after.connectionState)
    ELSE Kept(after.connectionState)

\* AfterUpgradeResponse with a slip: a response with status 101 is treated
\* as any other response
AfterUpgradeResponse_KeepsParsing(responded, request) ==
    UpgradeLoopOrStop(AfterResponse(SendResponse(responded), request))

\* the response goes to the connection; after a response with status 101 the
\* engine lets go of the Connection and leaves the loop
AfterUpgradeResponse(responded, request) ==
    IF responded.responseText.statusCode = 101
    THEN [connectionState |-> SendResponse(responded),
          upgraded |-> TRUE,
          trailer |-> Trailer(responded.connectionState)]
    ELSE UpgradeLoopOrStop(AfterResponse(SendResponse(responded), request))

\* an iteration of the for (;;) loop, from what TryRequestAssembly returned
UpgradeProcessRequest(assembly) ==
    IF assembly.request = Nullptr THEN Kept(assembly.connectionState)
    ELSE AfterUpgradeResponse(RespondTo(assembly.connectionState,
                                        assembly.request),
                              assembly.request)

UpgradeLoop(connectionState) ==
    UpgradeProcessRequest(TryRequestAssembly(connectionState))

UpgradeDataReceived(connectionState, data) ==
    UpgradeLoop([connectionState EXCEPT
        !.concatenateBuffer = @ \o data,
        !.received = @ + Len(data)])

\* the bytes the test sends behind its request
Trailer_Hello == Body_Hello \o CRLF

UpgradeWires ==
    {<<Req_FooBar, Trailer_Hello, Req_FooBar>>,
     <<Req_Plain, Req_FooBar>>}

InitUpgrade == InitOn(UpgradeWires)

\* Server::RegisterResource({"foo"}, resourceDelegate) of the test
RegisterUpgrader ==
    /\ connections = <<>>
    /\ ~Registered(<<Seg_foo>>)
    /\ RegisterCall(<<Seg_foo>>, "upgrader")
    /\ UNCHANGED <<threadVars, closureVars, sizeVars, reaperVars, timeoutVars, upgradeVars, lifecycleVars, timeVars,
                   headerLineLimit, configuration, connections, wire,
                   delivered, chunks, peerVars>>

\* what the data received delegate of the engine hands back
Received(result) ==
    /\ connections' = <<result.connectionState>>
    /\ upgraded' = result.upgraded
    /\ handlerReceived' = result.trailer

\* the data received delegate of the engine, on a connection it has not
\* handed over.  The resource delegate of the test keeps its trailer in
\* dataReceivedAfterUpgrading (handlerReceived)
DataReceivedUpgrade ==
    /\ connections # <<>>
    /\ Live(connections[1])
    /\ ~upgraded
    /\ chunks < MaxChunks
    /\ \E n \in ChunkSizes :
          /\ Received(UpgradeDataReceived(connections[1],
                                          Substr(WireBytes, delivered, n)))
          /\ delivered' = delivered + n
    /\ chunks' = chunks + 1
    /\ timeLastDataReceived' = now
    /\ timeLastRequestStarted' =
           IF Len(connections'[1].processed) > Len(connections[1].processed)
           THEN now ELSE timeLastRequestStarted
    /\ UNCHANGED <<threadVars, closureVars, sizeVars, reaperVars, timeoutVars, lifecycleVars, registryVars, headerLineLimit,
                   configuration, resources, wire, peerVars, now, wakes,
                   wakesAfterTimeout>>

\* the data received delegate the resource delegate of the test set on the
\* connection it took: the chunk is appended to dataReceivedAfterUpgrading
HandlerDataDelegate ==
    /\ upgraded
    /\ chunks < MaxChunks
    /\ \E n \in ChunkSizes :
          /\ handlerReceived' =
                 handlerReceived \o Substr(WireBytes, delivered, n)
          /\ delivered' = delivered + n
    /\ chunks' = chunks + 1
    /\ UNCHANGED <<threadVars, closureVars, sizeVars, reaperVars, timeoutVars, lifecycleVars, registryVars, timeVars,
                   headerLineLimit, configuration, resources, connections,
                   wire, peerVars, upgraded>>

NextUpgrade ==
    \/ RegisterUpgrader
    \/ MobilizeOnce
    \/ ClientConnectsTimed
    \/ DataReceivedUpgrade
    \/ HandlerDataDelegate
    \/ AdvanceTime
    \/ TimeoutMonitor

SpecUpgrade == InitUpgrade /\ [][NextUpgrade]_vars

\* ------------------------------------------------------------------------
\* Peer close and the reaper: the delegates and the reaper thread, step by
\* step.  A delegate holds the server mutex and a shared_ptr to the
\* ConnectionState from its first step to its last; the reaper empties its
\* local set outside the mutex.
\* ------------------------------------------------------------------------

\* the wires of the client in the runs with a peer close
PeerWires == {<<Req_Plain>>, <<Req_FooBar>>, <<Req_Post>>}

InitPeer == InitOn(PeerWires)

\* connectionStateWeak.lock() gives nullptr
Expired == destroyedBy # "none"

\* the data received delegate: the mutex is taken and the weak pointer locked
DataDelegateBegin ==
    /\ connections # <<>>
    /\ server # "destroyed"
    /\ delegate = "none"
    /\ chunks < MaxChunks
    /\ delivered < Len(WireBytes)
    /\ ~Expired
    /\ delegate' = "data"
    /\ UNCHANGED <<threadVars, closureVars, sizeVars, reaperVars, timeoutVars, upgradeVars, lifecycleVars, timeVars, registryVars, headerLineLimit, configuration, resources, connections, wire,
                   delivered, chunks, establishedConnections, brokenConnections,
                   oldBrokenConnections, destroyedBy>>

\* the data received delegate, when the ConnectionState is gone: it returns
DataDelegateExpired ==
    /\ connections # <<>>
    /\ server # "destroyed"
    /\ delegate = "none"
    /\ chunks < MaxChunks
    /\ Expired
    /\ \E n \in ChunkSizes : delivered' = delivered + n
    /\ chunks' = chunks + 1
    /\ UNCHANGED <<threadVars, closureVars, sizeVars, reaperVars, timeoutVars, upgradeVars, lifecycleVars, timeVars, registryVars, headerLineLimit, configuration, resources, connections, wire,
                   peerVars>>

\* the data received delegate: DataReceived is called with the chunk, then
\* the shared_ptr of the delegate and the mutex are released
DataDelegateEnd ==
    /\ delegate = "data"
    /\ \E n \in ChunkSizes :
          /\ connections' = <<DataReceived(connections[1],
                                  Substr(WireBytes, delivered, n))>>
          /\ delivered' = delivered + n
    /\ chunks' = chunks + 1
    /\ delegate' = "none"
    /\ destroyedBy' = IF /\ establishedConnections = {}
                         /\ brokenConnections = {}
                         /\ oldBrokenConnections = {}
                      THEN "data" ELSE destroyedBy
    /\ UNCHANGED <<threadVars, closureVars, sizeVars, reaperVars, timeoutVars, upgradeVars, lifecycleVars, timeVars, registryVars, headerLineLimit, configuration, resources, wire,
                   establishedConnections, brokenConnections,
                   oldBrokenConnections>>

\* BrokenDelegateBegin with a slip: the mutex is not taken
BrokenDelegateBegin_NoLock ==
    /\ connections # <<>>
    /\ server # "destroyed"
    /\ brokenFired < MaxBrokenCalls
    /\ ~Expired
    /\ delegate' = "broken"
    /\ UNCHANGED <<threadVars, closureVars, sizeVars, reaperVars, timeoutVars, upgradeVars, lifecycleVars, timeVars,
                   registryVars, headerLineLimit, configuration, resources,
                   connections, wire, delivered, chunks, establishedConnections,
                   brokenConnections, oldBrokenConnections, destroyedBy>>

\* the broken delegate: the mutex is taken and the weak pointer locked
BrokenDelegateBegin ==
    /\ connections # <<>>
    /\ server # "destroyed"
    /\ brokenFired < MaxBrokenCalls
    /\ delegate = "none"
    /\ ~Expired
    /\ delegate' = "broken"
    /\ UNCHANGED <<threadVars, closureVars, sizeVars, reaperVars, timeoutVars, upgradeVars, lifecycleVars, timeVars,
                   registryVars, headerLineLimit, configuration, resources,
                   connections, wire, delivered, chunks, establishedConnections,
                   brokenConnections, oldBrokenConnections, destroyedBy>>

\* the broken delegate, when the ConnectionState is gone: it returns
BrokenDelegateExpired ==
    /\ connections # <<>>
    /\ server # "destroyed"
    /\ brokenFired < MaxBrokenCalls
    /\ delegate = "none"
    /\ Expired
    /\ brokenFired' = brokenFired + 1
    /\ UNCHANGED <<threadVars, closureVars, sizeVars, timeoutVars, upgradeVars, lifecycleVars, timeVars,
                   registryVars, headerLineLimit, configuration, resources,
                   connections, wire, delivered, chunks, peerVars, stopReaper,
                   reaper, taken>>

\* BrokenDelegateEnd with a slip: the ConnectionState is not erased from the
\* established connections
BrokenDelegateEnd_NoErase ==
    /\ delegate = "broken"
    /\ brokenConnections' = brokenConnections \cup {1}
    /\ delegate' = "none"
    /\ brokenFired' = brokenFired + 1
    /\ UNCHANGED <<threadVars, closureVars, sizeVars, timeoutVars, upgradeVars, lifecycleVars, timeVars,
                   registryVars, headerLineLimit, configuration, resources,
                   connections, wire, delivered, chunks, establishedConnections,
                   oldBrokenConnections, destroyedBy, stopReaper, reaper, taken>>

\* the broken delegate: the ConnectionState goes from the established to the
\* broken connections, then the shared_ptr of the delegate and the mutex are
\* released
BrokenDelegateEnd ==
    /\ delegate = "broken"
    /\ brokenConnections' = brokenConnections \cup {1}
    /\ establishedConnections' = establishedConnections \ {1}
    /\ delegate' = "none"
    /\ brokenFired' = brokenFired + 1
    /\ UNCHANGED <<threadVars, closureVars, sizeVars, timeoutVars, upgradeVars, lifecycleVars, timeVars,
                   registryVars, headerLineLimit, configuration, resources,
                   connections, wire, delivered, chunks, oldBrokenConnections,
                   destroyedBy, stopReaper, reaper, taken>>

\* the predicate of condition.wait in Impl::Reaper, with a slip: stopReaper
\* is not looked at
Woken_BrokenOnly == brokenConnections # {}

\* the predicate of condition.wait in Impl::Reaper
Woken == stopReaper \/ brokenConnections # {}

\* Impl::Reaper under the mutex, with the loop going on: the broken
\* connections are moved to the local set
ReaperCollect ==
    /\ reaper = "running"
    /\ delegate = "none"
    /\ oldBrokenConnections = {}
    /\ Woken
    /\ ~stopReaper
    /\ oldBrokenConnections' = brokenConnections
    /\ brokenConnections' = {}
    /\ taken' = TRUE
    /\ UNCHANGED <<threadVars, closureVars, sizeVars, timeoutVars, upgradeVars, lifecycleVars, timeVars,
                   registryVars, headerLineLimit, configuration, resources,
                   connections, wire, delivered, chunks, establishedConnections,
                   delegate, destroyedBy, stopReaper, reaper, brokenFired>>

\* Impl::Reaper outside the mutex: the local set is cleared
ReaperDestroy ==
    /\ oldBrokenConnections # {}
    /\ oldBrokenConnections' = {}
    /\ destroyedBy' = IF /\ establishedConnections = {}
                         /\ brokenConnections = {}
                         /\ delegate = "none"
                      THEN "reaper" ELSE destroyedBy
    /\ UNCHANGED <<threadVars, closureVars, sizeVars, reaperVars, timeoutVars, upgradeVars, lifecycleVars, timeVars,
                   registryVars, headerLineLimit, configuration, resources,
                   connections, wire, delivered, chunks, establishedConnections,
                   brokenConnections, delegate>>

NextPeer ==
    \/ SetConfigurationItem
    \/ RegisterResourceCall
    \/ NewConnection
    \/ DataDelegateBegin
    \/ DataDelegateExpired
    \/ DataDelegateEnd
    \/ BrokenDelegateBegin
    \/ BrokenDelegateExpired
    \/ BrokenDelegateEnd
    \/ ReaperCollect
    \/ ReaperDestroy

SpecPeer == InitPeer /\ [][NextPeer]_vars

\* ------------------------------------------------------------------------
\* The reaper thread and the destruction of the server
\* ------------------------------------------------------------------------

\* Server::~Server up to the join: Demobilize, then stopReaper is set and
\* the condition notified under the mutex
DestructorStop ==
    /\ server = "alive"
    /\ delegate = "none"
    /\ Demobilize("~Server")
    /\ stopReaper' = TRUE
    /\ server' = "joining"
    /\ UNCHANGED <<threadVars, closureVars, sizeVars, timeoutVars, upgradeVars, timeVars, registryVars,
                   headerLineLimit, configuration, resources, connections,
                   wire, delivered, chunks, peerVars, reaper, brokenFired,
                   taken>>

\* Impl::Reaper under the mutex, with stopReaper set: the loop is left and
\* the thread ends
ReaperExit ==
    /\ reaper = "running"
    /\ delegate = "none"
    /\ oldBrokenConnections = {}
    /\ Woken
    /\ stopReaper
    /\ reaper' = "done"
    /\ UNCHANGED <<threadVars, closureVars, sizeVars, timeoutVars, upgradeVars, lifecycleVars, timeVars,
                   registryVars, headerLineLimit, configuration, resources,
                   connections, wire, delivered, chunks, peerVars, stopReaper,
                   brokenFired, taken>>

\* Server::~Server: impl_->reaper.join() returns
DestructorJoin ==
    /\ server = "joining"
    /\ reaper = "done"
    /\ server' = "destroyed"
    /\ UNCHANGED <<threadVars, closureVars, sizeVars, reaperVars, timeoutVars, upgradeVars, timeVars,
                   registryVars, headerLineLimit, configuration, resources,
                   connections, wire, delivered, chunks, peerVars, transport,
                   bound, lifecycle>>

ReaperWires == {<<Req_Plain>>}

InitReaper == InitOn(ReaperWires)

NextReaper ==
    \/ ClientConnects
    \/ DataDelegateBegin
    \/ DataDelegateExpired
    \/ DataDelegateEnd
    \/ BrokenDelegateBegin
    \/ BrokenDelegateExpired
    \/ BrokenDelegateEnd
    \/ ReaperCollect
    \/ ReaperDestroy
    \/ DestructorStop
    \/ ReaperExit
    \/ DestructorJoin

\* the threads of the reaper, of the delegates and of the destructor go on
\* whenever they can.  DataDelegateEnd is enabled exactly while the data
\* received delegate holds the mutex, so its weak fairness is that the
\* delegate is again and again not running
SpecReaper ==
    /\ InitReaper
    /\ [][NextReaper]_vars
    /\ []<>(delegate # "data")
    /\ WF_vars(BrokenDelegateEnd)
    /\ WF_vars(ReaperCollect)
    /\ WF_vars(ReaperDestroy)
    /\ WF_vars(ReaperExit)
    /\ WF_vars(DestructorJoin)

\* the embedder mobilizes and demobilizes the server while connections break
\* and the reaper runs, and destroys it at some moment
NextShutdown ==
    \/ MobilizeCall
    \/ DemobilizeCall
    \/ ClientConnects
    \/ BrokenDelegateBegin
    \/ BrokenDelegateExpired
    \/ BrokenDelegateEnd
    \/ ReaperCollect
    \/ ReaperDestroy
    \/ DestructorStop
    \/ ReaperExit
    \/ DestructorJoin

SpecShutdown ==
    /\ InitReaper
    /\ [][NextShutdown]_vars
    /\ WF_vars(BrokenDelegateEnd)
    /\ WF_vars(ReaperCollect)
    /\ WF_vars(ReaperDestroy)
    /\ WF_vars(ReaperExit)
    /\ WF_vars(DestructorJoin)

\* ------------------------------------------------------------------------
\* The embedder's threads next to the callbacks of the transport
\* ------------------------------------------------------------------------

\* Server::SetConfigurationItem("HeaderLineLimit", value), called at any time:
\* no mutex is taken
SetConfigurationItemAnytime ==
    /\ headerLineLimit = DEFAULT_HEADER_LINE_LIMIT
    /\ headerLineLimit' = ConfiguredLineLimit
    /\ UNCHANGED <<threadVars, closureVars, sizeVars, reaperVars, timeoutVars, upgradeVars, lifecycleVars,
                   timeVars, registryVars, configuration, resources,
                   connections, wire, delivered, chunks, peerVars>>

EmbedderWires == {<<Req_FooBar>>}

InitEmbedder == InitOn(EmbedderWires)

\* RegisterResource and the unregistration delegates take no mutex either
NextEmbedder ==
    \/ RegisterResourceAnywhere
    \/ UnregistrationDelegate
    \/ SetConfigurationItemAnytime
    \/ ClientConnects
    \/ DataDelegateBegin
    \/ DataDelegateEnd

SpecEmbedder == InitEmbedder /\ [][NextEmbedder]_vars

TypeOK ==
    /\ headerLineLimit \in Nat
    /\ delivered \in 0..Len(WireBytes)
    /\ Len(connections) <= 1


\* ------------------------------------------------------------------------
\* Observations used by the properties
\* ------------------------------------------------------------------------

Connected == connections # <<>>

Conn == connections[1]

Events == Conn.connection.events

EventsOfType(events, type) == SelectSeq(events, LAMBDA e : e.type = type)

Sends(events) == EventsOfType(events, "send")

\* the bytes received so far
ReceivedBytes == Substr(WireBytes, 0, delivered)

\* what a client, a handler and the next call can see of a connection
Observable(connectionState) ==
    [events |-> connectionState.connection.events,
     concatenateBuffer |-> connectionState.concatenateBuffer,
     nextRequest |-> connectionState.nextRequest]

\* the connection after the given bytes have arrived in one chunk
InOneChunk(bytes) == DataReceived(NewConnectionState, bytes)

\* the offsets of the wire at which a request ends
RequestEnds == {Len(Flatten(wire, k)) : k \in 1..Len(wire)}

\* a request of the wire that is complete and does not close the connection,
\* judged on a connection that receives nothing else
CompleteAndOpen(r) ==
    LET alone == InOneChunk(r)
    IN  /\ Len(alone.processed) = 1
        /\ alone.processed[1].request.state = "Complete"
        /\ alone.concatenateBuffer = <<>>
        /\ EventsOfType(alone.connection.events, "break") = <<>>

\* the events of the requests of a wire, each received alone, one after
\* the other
RECURSIVE EventsOneByOne(_, _)
EventsOneByOne(w, n) ==
    IF n = 0 THEN <<>>
    ELSE EventsOneByOne(w, n - 1) \o InOneChunk(w[n]).connection.events

\* the position in the events of the k-th response sent
RECURSIVE SendPosition(_, _, _)
SendPosition(events, k, from) ==
    IF events[from].type = "send"
    THEN IF k = 1 THEN from ELSE SendPosition(events, k - 1, from + 1)
    ELSE SendPosition(events, k, from + 1)

\* the k-th response sent on the connection: the one of the k-th request
\* processed
Response(k) == Events[SendPosition(Events, k, 1)].response

\* Break was called right after the k-th response was sent
BrokenAfter(k) ==
    LET p == SendPosition(Events, k, 1)
    IN  p < Len(Events) /\ Events[p + 1].type = "break"

\* the token close is among the Connection tokens of the headers
HasCloseToken(headers) ==
    LET tokens == GetHeaderMultiValues(headers, ConnectionName)
    IN  \E i \in 1..Len(tokens) : tokens[i] = CloseToken

\* the k-th request processed and its log entry
Processed(k) == Conn.processed[k].request

ProcessedCount == IF Connected THEN Len(Conn.processed) ELSE 0

\* the header block of the k-th request processed was complete: the bytes
\* taken from the wire up to its pop end with an empty line
HeaderBlockComplete(k) ==
    LET consumed == Conn.processed[k].received - Len(Conn.processed[k].buffer)
    IN  consumed >= 4 /\ Substr(WireBytes, consumed - 4, 4) = CRLF \o CRLF

Text_MaxContentLength == <<"1","0","0","0","0","0","0","0">>

RECURSIVE StripLeadingZeros(_)
StripLeadingZeros(s) ==
    IF s # <<>> /\ Head(s) = "0" THEN StripLeadingZeros(Tail(s)) ELSE s

\* the first of two digit strings of the same length denotes the larger number
RECURSIVE DigitsGreater(_, _)
DigitsGreater(a, b) ==
    IF a = <<>> THEN FALSE
    ELSE IF DigitValue(Head(a)) # DigitValue(Head(b))
    THEN DigitValue(Head(a)) > DigitValue(Head(b))
    ELSE DigitsGreater(Tail(a), Tail(b))

\* the text is a decimal number greater than 10,000,000, read digit by digit
\* without any arithmetic
DenotesMoreThanMax(text) ==
    /\ \A i \in 1..Len(text) : DigitValue(text[i]) >= 0
    /\ LET digits == StripLeadingZeros(text)
       IN  \/ Len(digits) > Len(Text_MaxContentLength)
           \/ /\ Len(digits) = Len(Text_MaxContentLength)
              /\ DigitsGreater(digits, Text_MaxContentLength)

\* the k-th request processed failed on a Content-Length that is too large
LengthTooLarge(k) ==
    /\ HeaderBlockComplete(k)
    /\ HasHeader(Processed(k).headers, ContentLengthName)
    /\ DenotesMoreThanMax(GetHeaderValue(Processed(k).headers, ContentLengthName))


\* ------------------------------------------------------------------------
\* Properties
\* ------------------------------------------------------------------------

\* C1: fragmentation invariance.  However the bytes received so far were cut
\* into chunks, the responses sent, the requests seen by the handlers, the
\* breaks and the connection buffer with its request under construction are
\* the same as when the same bytes arrive in one chunk.
C1_FragmentationInvariance ==
    (Connected /\ delivered > 0) =>
        Observable(Conn) = Observable(InOneChunk(ReceivedBytes))

\* C2: pipelining and response order.  When the whole wire has been received
\* and it consists of n >= 2 complete requests none of which closes the
\* connection, the engine has sent exactly n responses, the responses and
\* the handler invocations are those of the requests in wire order, and each
\* handler has seen the target of its own request.
C2_PipeliningInOrder ==
    (/\ Connected
     /\ delivered = Len(WireBytes)
     /\ Len(wire) >= 2
     /\ \A i \in 1..Len(wire) : CompleteAndOpen(wire[i]))
    => /\ Len(Sends(Events)) = Len(wire)
       /\ Events = EventsOneByOne(wire, Len(wire))

\* C3: one response per processed request.  In every state the number of
\* responses sent on the connection is the number of requests that reached
\* Complete or Error; nothing is sent for the request under construction.
C3_OneResponsePerProcessedRequest ==
    Connected =>
        /\ Len(Sends(Events)) = Len(Conn.processed)
        /\ ~IsProcessed(Conn.nextRequest)
        /\ \A i \in 1..Len(Conn.processed) : IsProcessed(Conn.processed[i].request)

\* C3 witness: two requests have been processed, one of them in Error, and a
\* third one is under construction
C3_Witness ==
    /\ Connected
    /\ Len(Conn.processed) >= 2
    /\ \E i \in 1..Len(Conn.processed) : Conn.processed[i].request.state = "Error"
    /\ \E i \in 1..Len(Conn.processed) : Conn.processed[i].request.state = "Complete"
    /\ Len(Sends(Events)) >= 2

\* the count of bytes taken from the wire when a request was popped
Consumed(entry) == entry.received - Len(entry.buffer)

\* the buffer left when a request was popped holds the bytes received behind
\* those taken, unchanged
SuffixLeft(entry) ==
    entry.buffer = Substr(WireBytes, Consumed(entry),
                          entry.received - Consumed(entry))

\* the buffer left when a request was popped is what was received behind
\* an end of a request of the wire
CleanAfter(entry) == Consumed(entry) \in RequestEnds /\ SuffixLeft(entry)

\* the request was popped in Error before its request line was taken
FailedOnRequestLine(entry) ==
    entry.request = [NewRequest EXCEPT !.state = "Error"]

\* C4 as claimed: buffer cleanliness for every processed request, Complete
\* or Error: when it is popped the buffer holds exactly the bytes received
\* behind its last byte.
C4_BufferCleanAfterProcessed ==
    Connected => \A i \in 1..Len(Conn.processed) : CleanAfter(Conn.processed[i])

\* C4 as amended: buffer cleanliness for every request that reaches
\* Complete: when it is popped the buffer holds exactly the bytes received
\* behind its last byte, unchanged.  When a request is popped in Error the
\* buffer holds the bytes received behind those the parser accepted,
\* unchanged, and no byte at all was taken for a request that failed on its
\* request line.
C4_BufferCleanAfterComplete ==
    Connected =>
        \A i \in 1..Len(Conn.processed) :
            /\ SuffixLeft(Conn.processed[i])
            /\ Conn.processed[i].request.state = "Complete"
                   => CleanAfter(Conn.processed[i])
            /\ FailedOnRequestLine(Conn.processed[i])
                   => Consumed(Conn.processed[i])
                          = IF i = 1 THEN 0 ELSE Consumed(Conn.processed[i - 1])

\* C4 witness: a request with a body was completed while bytes of the next
\* request were already in the buffer
C4_Witness ==
    /\ Connected
    /\ \E i \in 1..Len(Conn.processed) :
          /\ Conn.processed[i].request.state = "Complete"
          /\ Conn.processed[i].request.body # <<>>
          /\ Conn.processed[i].buffer # <<>>


\* C5: recoverable request error.  A request that reaches Complete with
\* valid = false is answered with 400, Break is called after its response
\* only if the request itself asked to close, and the loop goes on: once the
\* whole wire has been received, a well-formed last request behind it has
\* been parsed and answered as if it had come alone.
C5_RecoverableError ==
    \A k \in 1..ProcessedCount :
        (Processed(k).state = "Complete" /\ ~Processed(k).valid) =>
            /\ Response(k).statusCode = 400
            /\ Response(k).status = "Bad Request"
            /\ BrokenAfter(k) => HasCloseToken(Processed(k).headers)
            /\ (/\ delivered = Len(WireBytes)
                /\ k < Len(wire)
                /\ CompleteAndOpen(wire[Len(wire)]))
               => LET last == Conn.processed[ProcessedCount]
                      alone == InOneChunk(wire[Len(wire)])
                  IN  /\ k < ProcessedCount
                      /\ last.request = alone.processed[1].request
                      /\ last.buffer = <<>>
                      /\ Response(ProcessedCount)
                            = Sends(alone.connection.events)[1].response

\* C5 witness: the whole wire has been received, its first request was
\* completed with valid = false, the second one was answered 404, and Break
\* has not been called
C5_Witness ==
    /\ Connected
    /\ delivered = Len(WireBytes)
    /\ ProcessedCount = 2
    /\ Processed(1).state = "Complete" /\ ~Processed(1).valid
    /\ Processed(2).state = "Complete" /\ Processed(2).valid
    /\ Response(1).statusCode = 400
    /\ Response(2).statusCode = 404
    /\ EventsOfType(Events, "break") = <<>>

\* C6: unrecoverable request error.  The response to every request that ends
\* in Error carries the Connection token close, and Break is called right
\* after that response is sent.
C6_ErrorResponseCloses ==
    \A k \in 1..ProcessedCount :
        Processed(k).state = "Error" =>
            /\ HasCloseToken(Response(k).headers)
            /\ BrokenAfter(k)

\* C7: status of body-length errors.  A request that ends in Error is
\* answered 413 Payload Too Large if its header block was complete and its
\* Content-Length denotes more than 10,000,000 (overflowing size_t or not),
\* and 400 Bad Request in every other case; a Content-Length of exactly
\* 10,000,000 never puts a request in Error.
C7_StatusOfLengthErrors ==
    \A k \in 1..ProcessedCount :
        Processed(k).state = "Error" =>
            /\ IF LengthTooLarge(k)
               THEN /\ Response(k).statusCode = 413
                    /\ Response(k).status = "Payload Too Large"
               ELSE /\ Response(k).statusCode = 400
                    /\ Response(k).status = "Bad Request"
            /\ ~(/\ HeaderBlockComplete(k)
                 /\ HasHeader(Processed(k).headers, ContentLengthName)
                 /\ GetHeaderValue(Processed(k).headers, ContentLengthName)
                        = Text_MaxContentLength)

\* C7 witness: a request with Content-Length 10000001 has been answered 413
C7_Witness ==
    /\ ProcessedCount >= 1
    /\ Processed(1).state = "Error"
    /\ HasHeader(Processed(1).headers, ContentLengthName)
    /\ GetHeaderValue(Processed(1).headers, ContentLengthName)
           = <<"1","0","0","0","0","0","0","1">>
    /\ Response(1).statusCode = 413

\* C8: requested close.  For a request that reaches Complete: if its
\* Connection header has the token close, the response carries close and
\* Break is called right after the response; if neither the request nor the
\* response carries close, Break is not called after the response.
C8_RequestedClose ==
    \A k \in 1..ProcessedCount :
        Processed(k).state = "Complete" =>
            /\ HasCloseToken(Processed(k).headers) =>
                   (HasCloseToken(Response(k).headers) /\ BrokenAfter(k))
            /\ (~HasCloseToken(Processed(k).headers)
                    /\ ~HasCloseToken(Response(k).headers))
                   => ~BrokenAfter(k)

\* an engine-initiated close: a Break, or a response that carries close
ClosingEvent(e) ==
    \/ e.type = "break"
    \/ e.type = "send" /\ HasCloseToken(e.response.headers)

\* C9: nothing is processed after an engine-initiated close.  After the
\* engine has sent a response that carries close, or has called Break, no
\* handler is invoked and no response is sent on the connection.
C9_NothingAfterClose ==
    Connected =>
        \A i \in 1..Len(Events) : \A j \in (i + 1)..Len(Events) :
            ClosingEvent(Events[i]) => Events[j].type \notin {"send", "handler"}

\* C10: close decided by the handler.  When the response of a handler
\* carries the Connection token close although the request did not ask for
\* it, Break is called right after that response is sent.
C10_HandlerDecidedClose ==
    \A k \in 1..ProcessedCount :
        (/\ Processed(k).state = "Complete"
         /\ Processed(k).valid
         /\ ~HasCloseToken(Processed(k).headers)
         /\ HasCloseToken(Response(k).headers))
        => BrokenAfter(k)


\* the broken delegate of the connection has fired
PeerClosed == Connected /\ 1 \notin establishedConnections /\ delegate # "broken"

Handlers(events) == EventsOfType(events, "handler")

\* C11: peer close is final.  Once the broken delegate of the connection has
\* fired, no step of the engine calls SendData on the connection or invokes
\* a handler for it, whatever bytes the data received delegate is given
\* before the reaper has destroyed the ConnectionState.
C11_PeerCloseIsFinal ==
    [][PeerClosed => /\ Sends(Events') = Sends(Events)
                     /\ Handlers(Events') = Handlers(Events)]_vars

\* C19: no destruction inside a delegate.  The ConnectionState is destroyed
\* by the reaper thread only, never by the thread that runs the data
\* received or the broken delegate of the connection.
C19_DestroyedByReaperOnly == destroyedBy \in {"none", "reaper"}


\* ------------------------------------------------------------------------
\* The resource tree
\* ------------------------------------------------------------------------

IsPrefix(p, q) == Len(p) <= Len(q) /\ SubSeq(q, 1, Len(p)) = p

\* equal, or one a prefix of the other
Overlapping(p, q) == IsPrefix(p, q) \/ IsPrefix(q, p)

\* the prefixes with a handler in a tree
RegisteredIn(tree) == {p \in DOMAIN tree : tree[p] # NoHandler}

SameTree(a, b) == DOMAIN a = DOMAIN b /\ \A p \in DOMAIN a : a[p] = b[p]

\* C12: no two registered prefixes overlap, and a call of RegisterResource
\* returns an unregistration delegate exactly when no prefix registered before
\* the call overlaps its path; the path is registered by the call exactly then
C12_ResourceTreeExclusive ==
    /\ \A p, q \in RegisteredIn(resources) : p # q => ~Overlapping(p, q)
    /\ \A p \in DOMAIN resources :
           resources[p] # NoHandler => Subspaces(resources, p) = {}
    /\ registration.call = "register" =>
          /\ registration.returned <=>
                 \A q \in RegisteredIn(registration.before) :
                     ~Overlapping(q, registration.path)
          /\ RegisteredIn(resources) =
                 RegisteredIn(registration.before) \cup
                     (IF registration.returned THEN {registration.path} ELSE {})

\* a registration at /foo is refused while /foo/bar and /bye are registered
C12_Witness ==
    /\ registration.call = "register"
    /\ registration.path = <<Seg_foo>>
    /\ ~registration.returned
    /\ RegisteredIn(resources) = {<<Seg_foo, Seg_bar>>, <<Seg_bye>>}

\* C13: when the unregistration delegate of the registration just made is
\* called, the tree is the one before that registration, and a registration at
\* any path that overlaps none of the prefixes still registered succeeds
C13_UnregisterRegrow ==
    (registration.call = "unregister" /\ registration.undone) =>
        /\ SameTree(resources, registration.before)
        /\ \A q \in RegistrationPaths :
               (\A r \in RegisteredIn(resources) : ~Overlapping(q, r)) =>
                   RegisterResource(resources, q, DelegateOf(q)).registered

\* /foo/bar was registered next to /bye and unregistered again
C13_Witness ==
    /\ registration.call = "unregister"
    /\ registration.undone
    /\ registration.path = <<Seg_foo, Seg_bar>>
    /\ RegisteredIn(resources) = {<<Seg_bye>>}

\* the path of the request target without its leading empty segment
StrippedPath(request) ==
    IF request.target.path # <<>> /\ Head(request.target.path) = <<>>
    THEN Tail(request.target.path) ELSE request.target.path

\* the events of a connection that has processed the one request, when the
\* tree was the given one: the handler registered at a prefix of the path was
\* invoked once with the rest of the path, or none was and 404 was sent
DispatchedBy(tree, request, events) ==
    IF \E P \in RegisteredIn(tree) : IsPrefix(P, StrippedPath(request))
    THEN \E P \in RegisteredIn(tree) :
            /\ IsPrefix(P, StrippedPath(request))
            /\ Handlers(events) =
                   <<[type |-> "handler", handler |-> tree[P],
                      request |-> [request EXCEPT !.target.path =
                                      SubSeq(StrippedPath(request), Len(P) + 1,
                                             Len(StrippedPath(request)))]]>>
    ELSE /\ Handlers(events) = <<>>
         /\ Len(Sends(events)) = 1
         /\ Sends(events)[1].response.statusCode = 404

\* C14: the step that processes a valid complete request invokes the handler
\* registered at the prefix of its path, once, with the path rewritten to the
\* rest, and if no registered prefix is a prefix of the path (never registered,
\* or unregistered again) invokes no handler and sends 404
C14_Dispatch ==
    [][(/\ Connected
        /\ Len(connections[1].processed) = 0
        /\ Len(connections'[1].processed) = 1
        /\ connections'[1].processed[1].request.state = "Complete"
        /\ connections'[1].processed[1].request.valid)
       => DispatchedBy(resources, connections'[1].processed[1].request,
                       connections'[1].connection.events)]_vars

\* the handler registered at /foo was invoked for /foo/bar with the path bar
C14_Witness ==
    /\ Connected
    /\ Len(Handlers(Events)) = 1
    /\ Handlers(Events)[1].handler = "hello"
    /\ Handlers(Events)[1].request.target.path = <<Seg_bar>>
    /\ StrippedPath(Processed(1)) = <<Seg_foo, Seg_bar>>

\* what the engine sent for what the delegate returned: a Content-Length
\* with the length of the body is added exactly to a response with a body and
\* neither Transfer-Encoding nor Content-Length, and nothing else is changed
LengthSynthesized(returned, sent) ==
    /\ sent.statusCode = returned.statusCode
    /\ sent.body = returned.body
    /\ IF /\ returned.body # <<>>
          /\ ~HasHeader(returned.headers, TransferEncodingName)
          /\ ~HasHeader(returned.headers, ContentLengthName)
       THEN /\ sent.headers =
                   AddHeader(returned.headers, ContentLengthName,
                             GetHeaderValue(sent.headers, ContentLengthName))
            /\ ParseSize(GetHeaderValue(sent.headers, ContentLengthName)) =
                   [result |-> "Success", number |-> Len(returned.body)]
       ELSE sent.headers = returned.headers

\* C15: the response sent for a request that a resource delegate answered is
\* the response of the delegate, with a Content-Length of the body length
\* added if and only if it has a body and neither Transfer-Encoding nor
\* Content-Length
C15_ContentLengthSynthesis ==
    (Connected /\ Len(Handlers(Events)) = 1) =>
        /\ Len(Sends(Events)) = 1
        /\ LengthSynthesized(HandlerResponse(Handlers(Events)[1].handler,
                                             Handlers(Events)[1].request),
                             Sends(Events)[1].response)

\* the delegate at /foo returned "Hello!" and Content-Length: 6 was sent
C15_Witness ==
    /\ Connected
    /\ Len(Handlers(Events)) = 1
    /\ Handlers(Events)[1].handler = "hello"
    /\ Len(Sends(Events)) = 1
    /\ GetHeaderValue(Sends(Events)[1].response.headers, ContentLengthName) = <<"6">>
    /\ ~HasHeader(HandlerResponse("hello", Handlers(Events)[1].request).headers,
                  ContentLengthName)

\* ------------------------------------------------------------------------
\* The Host header
\* ------------------------------------------------------------------------

\* the Host header is absent, or differs from the host of the target, or
\* differs from the configuration item Host
HostRefused(request, serverHostItem) ==
    \/ ~HasHeader(request.headers, HostName)
    \/ /\ request.target.host # <<>>
       /\ request.target.host # GetHeaderValue(request.headers, HostName)
    \/ /\ serverHostItem # <<>>
       /\ serverHostItem # GetHeaderValue(request.headers, HostName)

\* C16: a request with a well-formed request line and well-formed headers is
\* not valid exactly when its Host header is absent, or its target has a host
\* different from the Host value, or the configuration item Host is not empty
\* and different from the Host value
C16_HostValidation ==
    (/\ Connected
     /\ ProcessedCount = 1
     /\ Processed(1).state = "Complete"
     /\ Processed(1).headers.valid)
    => (~Processed(1).valid <=> HostRefused(Processed(1), configuration.Host))

\* the request "GET /a" with "Host: h" on a server whose Host item is "g"
C16_Witness ==
    /\ Connected
    /\ ProcessedCount = 1
    /\ wire = <<Req_Plain>>
    /\ configuration.Host = <<"g">>
    /\ Processed(1).state = "Complete"
    /\ Processed(1).headers.valid
    /\ ~Processed(1).valid

\* ------------------------------------------------------------------------
\* The transport
\* ------------------------------------------------------------------------

\* C17: a call of Mobilize on a server that is mobilized returns false
C17_MobilizeWhenMobilized ==
    (lifecycle.call = "Mobilize" /\ lifecycle.wasMobilized) => ~lifecycle.result

\* C18: a transport is bound exactly while it is the transport of the
\* mobilized server; Demobilize and ~Server release the transport of a
\* mobilized server once and do nothing on a dormant one; a successful
\* Mobilize leaves the server mobilized, and on a dormant server, also one
\* that was demobilized, Mobilize succeeds when the transport can be bound
C18_TransportLifecycle ==
    /\ \A t \in Transports : bound[t] <=> transport = t
    /\ lifecycle.call \in {"Demobilize", "~Server"} =>
          /\ lifecycle.releases = IF lifecycle.wasMobilized THEN 1 ELSE 0
          /\ transport = NoTransport
    /\ (lifecycle.call = "Mobilize" /\ lifecycle.result) =>
          transport # NoTransport
    /\ (lifecycle.call = "Mobilize" /\ ~lifecycle.wasMobilized) =>
          (lifecycle.result <=> transport # NoTransport)

\* ------------------------------------------------------------------------
\* The timeout monitor
\* ------------------------------------------------------------------------

RequestInProgress ==
    \/ Conn.concatenateBuffer # <<>>
    \/ Conn.nextRequest # NewRequest

\* the events of the connection after the step are those before it, a 408
\* Request Timeout response with Connection: close, and a break
TimedOutInStep ==
    /\ Len(connections'[1].connection.events) = Len(Events) + 2
    /\ SubSeq(connections'[1].connection.events, 1, Len(Events)) = Events
    /\ connections'[1].connection.events[Len(Events) + 1] =
           [type |-> "send", response |-> TimeoutResponse]
    /\ TimeoutResponse.statusCode = 408
    /\ HasCloseToken(TimeoutResponse.headers)
    /\ connections'[1].connection.events[Len(Events) + 2].type = "break"

\* C21: a wake of the timeout monitor, when the time source is more than
\* RequestTimeout past the start of a request that is still incomplete, sends
\* 408 with Connection: close and breaks the connection, also when the last
\* bytes arrived within InactivityTimeout
C21_RequestTimeout ==
    [][(/\ wakes' = wakes + 1
        /\ transport # NoTransport
        /\ Connected
        /\ EventsOfType(Events, "break") = <<>>
        /\ RequestInProgress
        /\ now - timeLastRequestStarted > requestTimeout)
       => TimedOutInStep]_vars

\* bytes of a request arrived at every second, and two seconds after the
\* connection was made the monitor answered 408 and broke the connection
C21_Witness ==
    /\ Connected
    /\ wakes > 0
    /\ delivered > 0
    /\ delivered < Len(WireBytes)
    /\ ProcessedCount = 0
    /\ now - timeLastDataReceived <= inactivityTimeout
    /\ now = timeLastDataReceived
    /\ now - timeLastRequestStarted > requestTimeout
    /\ Len(Events) = 2
    /\ Events[1].type = "send"
    /\ Events[1].response.statusCode = 408
    /\ Events[2].type = "break"

C23_RequestClockReset ==
    [][(/\ Connected
        /\ ProcessedCount >= 1
        /\ ~RequestInProgress
        /\ delivered' > delivered
        /\ \/ connections'[1].concatenateBuffer # <<>>
           \/ connections'[1].nextRequest # NewRequest)
       => timeLastRequestStarted' = now]_vars

\* C24: a wake of the timeout monitor on a connection with no request under
\* way, and not more than IdleTimeout after its last data, sends nothing and
\* breaks nothing
C24_IdleConnection ==
    [][(/\ wakes' = wakes + 1
        /\ Connected
        /\ EventsOfType(Events, "break") = <<>>
        /\ ~RequestInProgress
        /\ now - timeLastDataReceived <= IdleTimeout)
       => connections'[1].connection.events = Events]_vars

\* a response with status 101 has been sent on the connection
Switched ==
    /\ Connected
    /\ \E i \in 1..Len(Events) :
          Events[i].type = "send" /\ Events[i].response.statusCode = 101

C27_ConnectionSetPartition ==
    /\ establishedConnections \cap brokenConnections = {}
    /\ (delegate = "none" /\ Connected /\ ~taken) =>
          /\ (1 \in establishedConnections) # (1 \in brokenConnections)
          /\ (1 \in establishedConnections) <=> (brokenFired = 0)

C27_Witness ==
    /\ delegate = "none"
    /\ Connected
    /\ ~taken
    /\ brokenFired = 2
    /\ brokenConnections = {1}
    /\ establishedConnections = {}

C28_ReapingIsLive ==
    (1 \in brokenConnections)
        ~> (stopReaper \/ (1 \notin brokenConnections /\ destroyedBy = "reaper"))

\* C29: the reaper ends only with stopReaper set, stopReaper is set by the
\* destructor only, no call of Mobilize or Demobilize ends the reaper, and
\* once stopReaper is set the join of the destructor returns
C29_DestructionStopsReaper ==
    /\ [](reaper = "done" => stopReaper)
    /\ [][(stopReaper' /\ ~stopReaper) => lifecycle'.call = "~Server"]_vars
    /\ [][lifecycle'.call \in {"Mobilize", "Demobilize"}
              => reaper' = "running"]_vars
    /\ stopReaper ~> (server = "destroyed" /\ reaper = "done")

C29_Witness ==
    /\ stopReaper
    /\ reaper = "running"
    /\ oldBrokenConnections = {1}
    /\ brokenConnections = {1}
    /\ lifecycle.count >= 3

\* C31: while the data received delegate holds the mutex, no step writes the
\* resource tree or the configuration
C31_MutexGuardsTreeAndConfiguration ==
    [][delegate = "data" =>
          UNCHANGED <<resources, configuration, headerLineLimit>>]_vars

\* C32: every node of the resource tree has a handler and no subspaces, or
\* no handler and at least one subspace; every node but the root hangs on a
\* node of the tree; and a tree without handlers is no tree (resources is
\* nullptr)
C32_ResourceTreeShape ==
    /\ \A p \in DOMAIN resources :
          /\ (resources[p] # NoHandler) <=> (Subspaces(resources, p) = {})
          /\ p # <<>> => Superspace(p) \in DOMAIN resources
    /\ RegisteredIn(resources) = {} => resources = <<>>

\* the last handler, two spaces below the root, has been unregistered
C32_Witness ==
    /\ registration.call = "unregister"
    /\ registration.path = <<Seg_foo, Seg_bar>>
    /\ registration.count = MaxRegistrations
    /\ resources = <<>>

\* C39: after a call of RegisterResource that returned no delegate the tree
\* is the tree before the call, and every path that could be registered
\* before the call can be registered after it
C39_FailedRegistration ==
    (registration.call = "register" /\ ~registration.returned) =>
        /\ SameTree(resources, registration.before)
        /\ \A q \in RegistrationPaths :
               RegisterResource(registration.before, q, DelegateOf(q)).registered
                   => RegisterResource(resources, q, DelegateOf(q)).registered

\* /foo/bar was refused below the handler of /foo
C39_Witness ==
    /\ registration.call = "register"
    /\ ~registration.returned
    /\ registration.path = <<Seg_foo, Seg_bar>>
    /\ RegisteredIn(resources) = {<<Seg_foo>>}


\* ------------------------------------------------------------------------
\* the request line, call by call
\* ------------------------------------------------------------------------

\* the bytes handed over by the step
ChunkOfStep == Substr(WireBytes, delivered, delivered' - delivered)

\* the buffer the first parse call of the step works on
BufferOfStep == Conn.concatenateBuffer \o ChunkOfStep

\* the step hands bytes to a connection whose request is in state RequestLine
RequestLineStep ==
    /\ Connected
    /\ delivered' > delivered
    /\ Conn.nextRequest.state = "RequestLine"

\* the step has popped the request it started with
PoppedInStep == Len(Conn'.processed) > Len(Conn.processed)

\* the request the step started with, as the step leaves it
FirstOfStep ==
    IF PoppedInStep THEN Conn'.processed[Len(Conn.processed) + 1].request
    ELSE Conn'.nextRequest

\* the step has popped the request it started with in Error with none of
\* the bytes of the buffer taken
LineRefusedInStep(buffer) ==
    /\ PoppedInStep
    /\ FailedOnRequestLine(Conn'.processed[Len(Conn.processed) + 1])
    /\ Conn'.processed[Len(Conn.processed) + 1].buffer = buffer

\* a request line that cannot be parsed: no method, no target, a target
\* that is no URI, or a protocol other than HTTP/1.1
LineDefect(line) ==
    LET methodDelimiter == Find(line, <<SP>>, 0)
        targetDelimiter ==
            IF methodDelimiter = NPOS THEN NPOS
            ELSE Find(line, <<SP>>, methodDelimiter + 1)
    IN  \/ methodDelimiter = NPOS
        \/ methodDelimiter = 0
        \/ targetDelimiter = NPOS
        \/ targetDelimiter = methodDelimiter + 1
        \/ \E i \in (methodDelimiter + 2)..targetDelimiter :
              line[i] \in UriIllegal
        \/ SubstrFrom(line, targetDelimiter + 1) # HTTP11

\* what a call that starts in state RequestLine does with a buffer whose
\* first CRLF is at requestLineEnd
RequestLineOutcome(buffer, requestLineEnd) ==
    /\ requestLineEnd = NPOS =>
          /\ LineRefusedInStep(buffer) <=> Len(buffer) > headerLineLimit
          /\ Len(buffer) <= headerLineLimit =>
                 /\ ~PoppedInStep
                 /\ Conn'.nextRequest = Conn.nextRequest
                 /\ Conn'.concatenateBuffer = buffer
    /\ requestLineEnd # NPOS =>
          /\ LineRefusedInStep(buffer) <=> requestLineEnd > headerLineLimit
          /\ requestLineEnd <= headerLineLimit =>
                 /\ FirstOfStep.state # "RequestLine"
                 /\ LineDefect(Substr(buffer, 0, requestLineEnd))
                        => ~FirstOfStep.valid

\* C33: request-line limit.  In every call that starts in state RequestLine,
\* with the first CRLF of the buffer at offset L the request is popped in
\* Error with nothing taken if and only if L > HeaderLineLimit, so a line of
\* exactly HeaderLineLimit bytes is parsed; with no CRLF in the buffer it is
\* popped in Error if and only if the buffer is longer than HeaderLineLimit
\* and otherwise stays in RequestLine with 0 bytes accepted.  A line that is
\* accepted and cannot be parsed leaves valid = false and the request behind
\* the request-line stage, never refused.
C33_RequestLineLimit ==
    [][RequestLineStep =>
          RequestLineOutcome(BufferOfStep, Find(BufferOfStep, CRLF, 0))]_vars

\* C33 witness: a request line of exactly HeaderLineLimit bytes has been
\* parsed, and its request completed
C33_Witness ==
    /\ wire = <<Req_LineAtLimit>>
    /\ Find(Req_LineAtLimit, CRLF, 0) = headerLineLimit
    /\ ProcessedCount = 1
    /\ Processed(1).state = "Complete"
    /\ Processed(1).method = <<"G","E","T">>


\* ------------------------------------------------------------------------
\* the body
\* ------------------------------------------------------------------------

\* the offset of the wire at which the k-th request processed begins
StartOf(k) == IF k = 1 THEN 0 ELSE Consumed(Conn.processed[k - 1])

\* the offset of the wire behind the header block that begins at start
HeaderBlockEnd(start) == Find(WireBytes, CRLF \o CRLF, start) + 4

\* the first decimal text denotes a larger number than the second, read
\* digit by digit
DenotesMore(a, b) ==
    LET x == StripLeadingZeros(a)
        y == StripLeadingZeros(b)
    IN  \/ Len(x) > Len(y)
        \/ Len(x) = Len(y) /\ DigitsGreater(x, y)

\* the request waits in Body: it has taken no body byte, the buffer is what
\* was received behind its header block, and that is less than its
\* Content-Length, which is at most 10,000,000
WaitsForBody(request, start) ==
    /\ HasHeader(request.headers, ContentLengthName)
    /\ request.body = <<>>
    /\ Conn.concatenateBuffer
           = Substr(WireBytes, HeaderBlockEnd(start),
                    delivered - HeaderBlockEnd(start))
    /\ DenotesMore(GetHeaderValue(request.headers, ContentLengthName),
                   SizeToString(Len(Conn.concatenateBuffer)))
    /\ ~DenotesMore(GetHeaderValue(request.headers, ContentLengthName),
                    Text_MaxContentLength)

\* the entry of a completed request that began at start and whose header
\* block ended at blockEnd: with a Content-Length its body is the N bytes
\* behind the header block and N bytes more were taken, without one its body
\* is empty and everything behind the header block is left in the buffer
BodyTaken(entry, blockEnd) ==
    IF HasHeader(entry.request.headers, ContentLengthName)
    THEN /\ SizeToString(Len(entry.request.body))
                = StripLeadingZeros(
                      GetHeaderValue(entry.request.headers, ContentLengthName))
         /\ entry.request.body
                = Substr(WireBytes, blockEnd, Len(entry.request.body))
         /\ blockEnd + Len(entry.request.body) <= entry.received
         /\ Consumed(entry) = blockEnd + Len(entry.request.body)
    ELSE /\ entry.request.body = <<>>
         /\ Consumed(entry) = blockEnd
         /\ entry.buffer = Substr(WireBytes, blockEnd, entry.received - blockEnd)

\* C34: body extraction.  A request with Content-Length N <= 10,000,000
\* stays in state Body, with no body byte taken, as long as fewer than N
\* bytes are available behind its header block; when it completes its body
\* is exactly the first N of them and N bytes more have been accepted.  A
\* request without Content-Length completes with an empty body at the end of
\* its header block and every following byte stays in the buffer.
C34_BodyExtraction ==
    Connected =>
        /\ Conn.nextRequest.state = "Body" =>
               WaitsForBody(Conn.nextRequest, StartOf(ProcessedCount + 1))
        /\ \A k \in 1..ProcessedCount :
               Processed(k).state = "Complete" =>
                   BodyTaken(Conn.processed[k], HeaderBlockEnd(StartOf(k)))

\* C34 witness: the request with Content-Length 2 waits in Body with one
\* byte of its body in the buffer
C34_Witness ==
    /\ Connected
    /\ wire[1] = Req_Post
    /\ Conn.nextRequest.state = "Body"
    /\ Conn.concatenateBuffer = <<"h">>


\* ------------------------------------------------------------------------
\* ParseSize, called on its own
\* ------------------------------------------------------------------------

\* the numbers whose decimal texts are parsed: the small ones, those around
\* MAX_CONTENT_LENGTH, those around the multiples of 2^SizeBits, and those
\* whose tenth lies just above a ninth of 2^SizeBits
SizeValues ==
    (0..12)
    \cup ((MAX_CONTENT_LENGTH - 1)..(MAX_CONTENT_LENGTH + 1))
    \cup {k * SizeModulus + j : k \in 1..7, j \in (0 - 3)..3}
    \cup {SizeModulus + (SizeModulus \div 9) + j : j \in 0..20}

\* the texts given to ParseSize: the decimal text of a number, the same
\* behind a zero, in front of a letter and behind a sign, and the empty text
SizeTexts ==
    {<<>>}
    \cup {SizeToString(n) : n \in SizeValues}
    \cup {<<"0">> \o SizeToString(n) : n \in SizeValues}
    \cup {SizeToString(n) \o <<"x">> : n \in SizeValues}
    \cup {<<"-">> \o SizeToString(n) : n \in SizeValues}

InitSize == InitWith({<<Req_Plain>>}, SizeTexts)

\* ParseSize(stringSize, number)
ParseSizeCall ==
    /\ size = NotParsed
    /\ size' = ParseSize(stringSize)
    /\ UNCHANGED <<threadVars, closureVars, stringSize, reaperVars, timeoutVars, upgradeVars, lifecycleVars, timeVars, registryVars, headerLineLimit, configuration, resources, connections, wire, delivered, chunks, peerVars>>

NextSize == ParseSizeCall

SpecSize == InitSize /\ [][NextSize]_vars

\* the text is made of decimal digits only
AllDigits(text) == \A i \in 1..Len(text) : DigitValue(text[i]) >= 0

\* the digits in front of the first character that is no digit
RECURSIVE DigitsBefore(_)
DigitsBefore(text) ==
    IF text = <<>> \/ DigitValue(Head(text)) < 0 THEN <<>>
    ELSE <<Head(text)>> \o DigitsBefore(Tail(text))

\* the decimal text of the number a text of digits denotes
Canonical(text) ==
    IF StripLeadingZeros(text) = <<>> THEN <<"0">>
    ELSE StripLeadingZeros(text)

\* the decimal text of the largest size_t
Text_MaxSize == SizeToString(SizeModulus - 1)

\* C35: overflow detection in ParseSize is exact.  With SizeBits-bit
\* unsigned arithmetic, for every text of decimal digits ParseSize returns
\* Overflow if and only if the number the text denotes is greater than
\* 2^SizeBits - 1, and otherwise Success with exactly that number; a text
\* with a character that is no digit, and no overflow in front of it,
\* returns NotaNumber.
C35_ParseSizeOverflowExact ==
    size # NotParsed =>
        IF AllDigits(stringSize)
        THEN IF DenotesMore(stringSize, Text_MaxSize)
             THEN size.result = "Overflow"
             ELSE /\ size.result = "Success"
                  /\ SizeToString(size.number) = Canonical(stringSize)
        ELSE ~DenotesMore(DigitsBefore(stringSize), Text_MaxSize)
                 => size.result = "NotaNumber"

\* C35 witness: the text of 2^SizeBits, the smallest number that does not
\* fit, has been refused
C35_Witness ==
    /\ stringSize = SizeToString(SizeModulus)
    /\ size.result = "Overflow"


\* ------------------------------------------------------------------------
\* the order of the parsing states
\* ------------------------------------------------------------------------

\* the place of a state on the way RequestLine -> Headers -> Body -> Complete
StageOf(state) ==
    CASE state = "RequestLine" -> 0
      [] state = "Headers" -> 1
      [] state = "Body" -> 2
      [] state = "Complete" -> 3

\* a Request in state from may be found in state to after a parse call
MovesForward(from, to) ==
    /\ from \notin {"Complete", "Error"}
    /\ to = "Error" \/ StageOf(to) >= StageOf(from)

\* C36: the parser only moves forward.  Over every call of the data
\* delegate, the Request under construction follows RequestLine -> Headers
\* -> Body -> Complete or jumps to Error, and valid never goes from false
\* back to true; a Request popped in Complete or Error never changes again,
\* and the Request under construction after it is another one, not yet
\* processed.
C36_ParserMovesForward ==
    [][(Connected /\ delivered' > delivered) =>
          /\ MovesForward(Conn.nextRequest.state, FirstOfStep.state)
          /\ ~Conn.nextRequest.valid => ~FirstOfStep.valid
          /\ SubSeq(Conn'.processed, 1, Len(Conn.processed)) = Conn.processed
          /\ \A k \in (Len(Conn.processed) + 1)..Len(Conn'.processed) :
                Conn'.processed[k].request.state \in {"Complete", "Error"}
          /\ Conn'.nextRequest.state \notin {"Complete", "Error"}
          /\ PoppedInStep =>
                MovesForward("RequestLine", Conn'.nextRequest.state)]_vars

\* C36 witness: a request whose line could not be parsed waits in Headers
\* with valid = false for the rest of its header block
C36_Witness ==
    /\ Connected
    /\ wire[1] = Req_BadProtocol
    /\ Conn.nextRequest.state = "Headers"
    /\ ~Conn.nextRequest.valid
    /\ delivered < Len(WireBytes)


\* ------------------------------------------------------------------------
\* what the handlers are given
\* ------------------------------------------------------------------------

\* the path of the request lies in a registered subspace
UnderRegistered(request) ==
    \E P \in RegisteredIn(resources) : IsPrefix(P, StrippedPath(request))

\* C37: handlers see only good requests.  Every request a resource handler
\* has been invoked with is in state Complete with valid = true, and the
\* handlers have been invoked as many times as requests of that kind with a
\* path in a registered subspace have been processed: a request with
\* valid = false or in state Error has reached no handler, wherever its
\* path lies.
C37_HandlersSeeGoodRequests ==
    Connected =>
        /\ \A i \in 1..Len(Handlers(Events)) :
              /\ Handlers(Events)[i].request.state = "Complete"
              /\ Handlers(Events)[i].request.valid
        /\ Len(Handlers(Events))
              = Cardinality({k \in 1..ProcessedCount :
                                /\ Processed(k).state = "Complete"
                                /\ Processed(k).valid
                                /\ UnderRegistered(Processed(k))})

\* C37 witness: a request with valid = false whose path lies in a registered
\* subspace has been answered 400 and no handler has been invoked
C37_Witness ==
    /\ Connected
    /\ ProcessedCount = 1
    /\ Processed(1).state = "Complete"
    /\ ~Processed(1).valid
    /\ UnderRegistered(Processed(1))
    /\ Response(1).statusCode = 400
    /\ Handlers(Events) = <<>>


\* ------------------------------------------------------------------------
\* The unregistration delegates kept and called again.  The delegate
\* captures the ResourceSpace object of its registration (a shared_ptr) and
\* that object points to its superspace (a weak_ptr) and knows its name.
\* ------------------------------------------------------------------------

\* the calls of RegisterResource and of the delegates in these runs
MaxClosureCalls == 4

\* the objects of the tree after a call of RegisterResource: the spaces the
\* call has created are new objects
SpacesGrown(tree) ==
    [p \in DOMAIN tree |->
        IF p \in DOMAIN spaces THEN spaces[p] ELSE nextSpace + Len(p)]

\* the delegate RegisterResource returns: [this, space]
ClosureOf(path, objects) ==
    [path |-> path,
     space |-> objects[path],
     superspace |-> IF path = <<>> THEN 0 ELSE objects[Superspace(path)]]

\* the object the delegate has captured is still the space of the tree at
\* its path
Attached(tree, closure) ==
    /\ closure.path \in DOMAIN tree
    /\ spaces[closure.path] = closure.space

\* currentSpace->superspace.lock() gives an object: the superspace is still
\* in the tree, which alone keeps it alive
SuperspaceAlive(tree, closure) ==
    /\ closure.path # <<>>
    /\ Superspace(closure.path) \in DOMAIN tree
    /\ spaces[Superspace(closure.path)] = closure.superspace

\* superspace->subspaces.erase(currentSpace->name): whatever space has the
\* name now goes, with all that is below it
EraseByName(tree, space) ==
    [p \in {q \in DOMAIN tree : ~IsPrefix(space, q)} |-> tree[p]]

\* the delegate called on an object that is no longer in the tree: the
\* object has neither handler nor subspaces, so its name is erased from its
\* superspace and the walk goes on upwards, or resources becomes nullptr
\* when the superspace is gone
DetachedCall(tree, closure) ==
    IF ~SuperspaceAlive(tree, closure) THEN <<>>
    ELSE IF Subspaces(EraseByName(tree, closure.path),
                      Superspace(closure.path)) = {}
    THEN UnregisterWalk(EraseByName(tree, closure.path),
                        Superspace(closure.path))
    ELSE EraseByName(tree, closure.path)

\* the unregistration delegate, called
CallClosure(tree, closure) ==
    IF Attached(tree, closure) THEN Unregister(tree, closure.path)
    ELSE DetachedCall(tree, closure)

\* Server::RegisterResource, with the objects it makes
RegisterResourceTracked ==
    /\ registration.count < MaxClosureCalls
    /\ \E path \in RegistrationPaths :
          /\ RegisterCall(path, DelegateOf(path))
          /\ spaces' = SpacesGrown(resources')
          /\ held' = IF registration'.returned
                     THEN held \cup {ClosureOf(path, spaces')}
                     ELSE held
    /\ nextSpace' = nextSpace + 3
    /\ lastCall' = NoClosureCall
    /\ UNCHANGED <<threadVars, sizeVars, reaperVars, timeoutVars, upgradeVars, lifecycleVars, timeVars, headerLineLimit, configuration, connections, wire, delivered, chunks, peerVars>>

\* the embedder calls an unregistration delegate it keeps, for the first
\* time or again
UnregistrationDelegateCall ==
    /\ registration.count < MaxClosureCalls
    /\ \E closure \in held :
          /\ resources' = CallClosure(resources, closure)
          /\ lastCall' = [made |-> TRUE, path |-> closure.path,
                          first |-> Attached(resources, closure),
                          before |-> resources]
          /\ closures' = IF Attached(resources, closure)
                         THEN closures \ {closure.path} ELSE closures
          /\ registration' =
                 [count |-> registration.count + 1, call |-> "unregister",
                  path |-> closure.path,
                  returned |-> FALSE,
                  undone |-> FALSE,
                  before |-> registration.before]
    /\ spaces' = [p \in DOMAIN resources' |-> spaces[p]]
    /\ UNCHANGED <<threadVars, nextSpace, held, sizeVars, reaperVars, timeoutVars, upgradeVars, lifecycleVars, timeVars, headerLineLimit, configuration, connections, wire, delivered, chunks, peerVars>>

InitClosures == InitOn({<<Req_Plain>>})

NextClosures == RegisterResourceTracked \/ UnregistrationDelegateCall

SpecClosures == InitClosures /\ [][NextClosures]_vars

\* C38: an unregistration delegate touches only its own registration.
\* After any call of a delegate every handler that was registered before
\* the call, other than the one the delegate was returned for, is still
\* registered, and a call of a delegate that has been called before leaves
\* the tree as it was.
C38_ClosureTouchesOnlyItsOwn ==
    lastCall.made =>
        /\ \A P \in RegisteredIn(lastCall.before) :
              (P # lastCall.path \/ ~lastCall.first) =>
                  /\ P \in RegisteredIn(resources)
                  /\ resources[P] = lastCall.before[P]
        /\ ~lastCall.first => SameTree(resources, lastCall.before)


\* ------------------------------------------------------------------------
\* The threads and the mutex.  A thread that has called lock() is at "lock"
\* (the reaper also at "relock" and at "woken") until the mutex is free and it takes it.
\* ------------------------------------------------------------------------

\* what no thread changes in these runs
settledVars ==
    <<sizeVars, closureVars, registryVars, timeoutVars, upgradeVars,
      headerLineLimit, configuration, resources, wire>>

ThreadWires == {<<Req_Plain>>}

\* the calls of the data received delegate, of the broken delegate and the
\* wakes of the monitor in these runs
MaxThreadCalls == 1

\* the chunks of these runs: one byte, or all the bytes left
ThreadChunkSizes == {1, Len(WireBytes) - delivered}

InitThreads == InitOn(ThreadWires)

\* the thread goes on to another place
Goes(t, to) == at' = [at EXCEPT ![t] = to]

\* lock(): the thread takes the free mutex
Locks(t, to) ==
    /\ mutex = "free"
    /\ mutex' = t
    /\ Goes(t, to)

\* unlock(), or the end of the scope of a lock_guard
Unlocks(t, to) ==
    /\ mutex = t
    /\ mutex' = "free"
    /\ Goes(t, to)

\* the transport calls the new connection delegate of the mobilized server:
\* Impl::NewConnection asks for the mutex
NewConnectionCalled ==
    /\ at["new"] = "idle"
    /\ connections = <<>>
    /\ transport # NoTransport
    /\ Goes("new", "lock")
    /\ UNCHANGED <<settledVars, connections, delivered, chunks, peerVars,
                   lifecycleVars, timeVars, reaperVars, mutex, stopMonitor>>

NewConnectionLocked ==
    /\ at["new"] = "lock"
    /\ Locks("new", "held")
    /\ UNCHANGED <<settledVars, connections, delivered, chunks, peerVars,
                   lifecycleVars, timeVars, reaperVars, stopMonitor>>

\* Impl::NewConnection under the mutex: the ConnectionState is made and its
\* delegates are set, then the mutex is released
NewConnectionReturns ==
    /\ at["new"] = "held"
    /\ connections' = <<NewConnectionState>>
    /\ establishedConnections' = {1}
    /\ timeLastDataReceived' = now
    /\ timeLastRequestStarted' = now
    /\ Unlocks("new", "idle")
    /\ UNCHANGED <<settledVars, delivered, chunks, brokenConnections,
                   oldBrokenConnections, delegate, destroyedBy, lifecycleVars,
                   now, wakes, wakesAfterTimeout, reaperVars, stopMonitor>>

\* the connection calls the data received delegate: it asks for the mutex
DataCalled ==
    /\ at["data"] = "idle"
    /\ connections # <<>>
    /\ server # "destroyed"
    /\ chunks < MaxThreadCalls
    /\ delivered < Len(WireBytes)
    /\ Goes("data", "lock")
    /\ UNCHANGED <<settledVars, connections, delivered, chunks, peerVars,
                   lifecycleVars, timeVars, reaperVars, mutex, stopMonitor>>

\* the data received delegate has the mutex and locks its weak pointer
DataLocked ==
    /\ at["data"] = "lock"
    /\ Locks("data", "held")
    /\ delegate' = IF Expired THEN delegate ELSE "data"
    /\ UNCHANGED <<settledVars, connections, delivered, chunks,
                   establishedConnections, brokenConnections,
                   oldBrokenConnections, destroyedBy, lifecycleVars, timeVars,
                   reaperVars, stopMonitor>>

\* the data received delegate under the mutex: DataReceived with the chunk
\* (nothing when the ConnectionState is gone, the bytes dropped when the
\* connection was broken by the engine), then the mutex is released
DataReturns ==
    /\ at["data"] = "held"
    /\ \E n \in ThreadChunkSizes :
          /\ connections' =
                 IF delegate = "data" /\ Live(connections[1])
                 THEN <<DataReceived(connections[1],
                            Substr(WireBytes, delivered, n))>>
                 ELSE connections
          /\ delivered' = delivered + n
    /\ chunks' = chunks + 1
    /\ timeLastDataReceived' =
           IF delegate = "data" /\ Live(connections[1]) THEN now
           ELSE timeLastDataReceived
    /\ timeLastRequestStarted' =
           IF Len(connections'[1].processed) > Len(connections[1].processed)
           THEN now ELSE timeLastRequestStarted
    /\ delegate' = "none"
    /\ destroyedBy' = IF /\ delegate = "data"
                         /\ establishedConnections = {}
                         /\ brokenConnections = {}
                         /\ oldBrokenConnections = {}
                      THEN "data" ELSE destroyedBy
    /\ Unlocks("data", "idle")
    /\ UNCHANGED <<settledVars, establishedConnections, brokenConnections,
                   oldBrokenConnections, lifecycleVars, now, wakes,
                   wakesAfterTimeout, reaperVars, stopMonitor>>

\* the connection calls the broken delegate: it asks for the mutex
BrokenCalled ==
    /\ at["broken"] = "idle"
    /\ connections # <<>>
    /\ server # "destroyed"
    /\ brokenFired < MaxThreadCalls
    /\ Goes("broken", "lock")
    /\ UNCHANGED <<settledVars, connections, delivered, chunks, peerVars,
                   lifecycleVars, timeVars, reaperVars, mutex, stopMonitor>>

\* the broken delegate has the mutex and locks its weak pointer
BrokenLocked ==
    /\ at["broken"] = "lock"
    /\ Locks("broken", "held")
    /\ delegate' = IF Expired THEN delegate ELSE "broken"
    /\ UNCHANGED <<settledVars, connections, delivered, chunks,
                   establishedConnections, brokenConnections,
                   oldBrokenConnections, destroyedBy, lifecycleVars, timeVars,
                   reaperVars, stopMonitor>>

\* the broken delegate under the mutex: the ConnectionState goes to the
\* broken connections and the reaper is notified, then the mutex is released
BrokenReturns ==
    /\ at["broken"] = "held"
    /\ brokenConnections' = IF delegate = "broken"
                            THEN brokenConnections \cup {1}
                            ELSE brokenConnections
    /\ establishedConnections' = IF delegate = "broken"
                                 THEN establishedConnections \ {1}
                                 ELSE establishedConnections
    /\ brokenFired' = brokenFired + 1
    /\ delegate' = "none"
    /\ Unlocks("broken", "idle")
    /\ UNCHANGED <<settledVars, connections, delivered, chunks,
                   oldBrokenConnections, destroyedBy, lifecycleVars, timeVars,
                   stopReaper, reaper, taken, stopMonitor>>

\* Impl::Reaper: the unique_lock at the start of the thread
ReaperLocked ==
    /\ at["reaper"] = "lock"
    /\ Locks("reaper", "head")
    /\ UNCHANGED <<settledVars, connections, delivered, chunks, peerVars,
                   lifecycleVars, timeVars, reaperVars, stopMonitor>>

\* Impl::Reaper at the head of its loop, under the mutex: it leaves when
\* stopReaper is set, else it moves the broken connections to its local set
\* and unlocks
ReaperLoop ==
    /\ at["reaper"] = "head"
    /\ IF stopReaper
       THEN /\ reaper' = "done"
            /\ Unlocks("reaper", "done")
            /\ UNCHANGED <<brokenConnections, oldBrokenConnections, taken>>
       ELSE /\ oldBrokenConnections' = brokenConnections
            /\ brokenConnections' = {}
            /\ taken' = (taken \/ brokenConnections # {})
            /\ Unlocks("reaper", "drop")
            /\ UNCHANGED reaper
    /\ UNCHANGED <<settledVars, connections, delivered, chunks,
                   establishedConnections, delegate, destroyedBy,
                   lifecycleVars, timeVars, stopReaper, brokenFired,
                   stopMonitor>>

\* Impl::Reaper outside the mutex: the local set is cleared, then lock()
ReaperDrops ==
    /\ at["reaper"] = "drop"
    /\ oldBrokenConnections' = {}
    /\ destroyedBy' = IF /\ oldBrokenConnections # {}
                         /\ establishedConnections = {}
                         /\ brokenConnections = {}
                         /\ delegate = "none"
                      THEN "reaper" ELSE destroyedBy
    /\ Goes("reaper", "relock")
    /\ UNCHANGED <<settledVars, connections, delivered, chunks,
                   establishedConnections, brokenConnections, delegate,
                   lifecycleVars, timeVars, reaperVars, mutex, stopMonitor>>

\* Impl::Reaper has the mutex again, after the drop or after a notification
ReaperRelocked ==
    /\ at["reaper"] \in {"relock", "woken"}
    /\ Locks("reaper", "check")
    /\ UNCHANGED <<settledVars, connections, delivered, chunks, peerVars,
                   lifecycleVars, timeVars, reaperVars, stopMonitor>>

\* condition.wait with a slip: the mutex is kept while the reaper waits
ReaperWaits_MutexKept ==
    /\ at["reaper"] = "check"
    /\ mutex = "reaper"
    /\ Goes("reaper", IF Woken THEN "head" ELSE "wait")
    /\ UNCHANGED <<settledVars, connections, delivered, chunks, peerVars,
                   lifecycleVars, timeVars, reaperVars, mutex, stopMonitor>>

\* condition.wait(lock, predicate) under the mutex: with the predicate true
\* the loop goes on, else the mutex is released and the reaper waits
ReaperWaits ==
    /\ at["reaper"] = "check"
    /\ mutex = "reaper"
    /\ IF Woken THEN Goes("reaper", "head") /\ UNCHANGED mutex
       ELSE Unlocks("reaper", "wait")
    /\ UNCHANGED <<settledVars, connections, delivered, chunks, peerVars,
                   lifecycleVars, timeVars, reaperVars, stopMonitor>>

\* the waiting reaper has been notified: it asks for the mutex
ReaperNotified ==
    /\ at["reaper"] = "wait"
    /\ Woken
    /\ Goes("reaper", "woken")
    /\ UNCHANGED <<settledVars, connections, delivered, chunks, peerVars,
                   lifecycleVars, timeVars, reaperVars, mutex, stopMonitor>>

\* the polling period of the timeout monitor is over: it asks for the mutex
MonitorWakes ==
    /\ at["monitor"] = "sleep"
    /\ ~stopMonitor
    /\ wakes < MaxThreadCalls
    /\ Goes("monitor", "lock")
    /\ UNCHANGED <<settledVars, connections, delivered, chunks, peerVars,
                   lifecycleVars, timeVars, reaperVars, mutex, stopMonitor>>

MonitorLocked ==
    /\ at["monitor"] = "lock"
    /\ Locks("monitor", "held")
    /\ UNCHANGED <<settledVars, connections, delivered, chunks, peerVars,
                   lifecycleVars, timeVars, reaperVars, stopMonitor>>

\* the timeout monitor under the mutex: the scan of the connection, with
\* SendData and Break called on a connection that timed out, then the mutex
\* is released
MonitorScans ==
    /\ at["monitor"] = "held"
    /\ wakes' = wakes + 1
    /\ wakesAfterTimeout' =
           IF connections # <<>> /\ TimeoutSent(connections[1])
           THEN wakesAfterTimeout + 1 ELSE wakesAfterTimeout
    /\ connections' =
           IF connections = <<>> \/ establishedConnections = {}
           THEN connections
           ELSE <<Scan(connections[1], now, timeLastDataReceived,
                       timeLastRequestStarted)>>
    /\ Unlocks("monitor", "sleep")
    /\ UNCHANGED <<settledVars, delivered, chunks, peerVars, lifecycleVars,
                   now, timeLastDataReceived, timeLastRequestStarted,
                   reaperVars, stopMonitor>>

\* the timeout monitor finds its stop flag set and ends
MonitorStops ==
    /\ at["monitor"] = "sleep"
    /\ stopMonitor
    /\ Goes("monitor", "stopped")
    /\ UNCHANGED <<settledVars, connections, delivered, chunks, peerVars,
                   lifecycleVars, timeVars, reaperVars, mutex, stopMonitor>>

\* Server::Mobilize: the transport is bound and the timeout monitor started
MobilizeStarts ==
    /\ at["embedder"] = "idle"
    /\ transport = NoTransport
    /\ at["monitor"] = "stopped"
    /\ lifecycle.count = 0
    /\ Mobilize(1, TRUE)
    /\ at' = [at EXCEPT !["monitor"] = "sleep"]
    /\ stopMonitor' = FALSE
    /\ UNCHANGED <<settledVars, connections, delivered, chunks, peerVars,
                   timeVars, reaperVars, mutex>>

\* Server::Demobilize: the timeout monitor is told to stop, then joined
DemobilizeCalled ==
    /\ at["embedder"] = "idle"
    /\ server = "alive"
    /\ lifecycle.count < MaxLifecycleCalls
    /\ stopMonitor' = TRUE
    /\ Goes("embedder", "joinMonitor")
    /\ UNCHANGED <<settledVars, connections, delivered, chunks, peerVars,
                   lifecycleVars, timeVars, reaperVars, mutex>>

\* Server::Demobilize after the join: the transport is released
DemobilizeJoined ==
    /\ at["embedder"] = "joinMonitor"
    /\ at["monitor"] = "stopped"
    /\ Demobilize("Demobilize")
    /\ Goes("embedder", "idle")
    /\ UNCHANGED <<settledVars, connections, delivered, chunks, peerVars,
                   server, timeVars, reaperVars, mutex, stopMonitor>>

\* Server::~Server: Demobilize first
DestructorCalled ==
    /\ at["embedder"] = "idle"
    /\ server = "alive"
    /\ stopMonitor' = TRUE
    /\ Goes("embedder", "joinLast")
    /\ UNCHANGED <<settledVars, connections, delivered, chunks, peerVars,
                   lifecycleVars, timeVars, reaperVars, mutex>>

\* Server::~Server after Demobilize: it asks for the mutex
DestructorDemobilized ==
    /\ at["embedder"] = "joinLast"
    /\ at["monitor"] = "stopped"
    /\ Demobilize("~Server")
    /\ Goes("embedder", "lock")
    /\ UNCHANGED <<settledVars, connections, delivered, chunks, peerVars,
                   server, timeVars, reaperVars, mutex, stopMonitor>>

DestructorLocked ==
    /\ at["embedder"] = "lock"
    /\ Locks("embedder", "held")
    /\ UNCHANGED <<settledVars, connections, delivered, chunks, peerVars,
                   lifecycleVars, timeVars, reaperVars, stopMonitor>>

\* Server::~Server under the mutex: stopReaper is set and the reaper
\* notified, then the mutex is released and the reaper joined
DestructorStops ==
    /\ at["embedder"] = "held"
    /\ stopReaper' = TRUE
    /\ server' = "joining"
    /\ Unlocks("embedder", "joinReaper")
    /\ UNCHANGED <<settledVars, connections, delivered, chunks, peerVars,
                   transport, bound, lifecycle, timeVars, reaper, brokenFired,
                   taken, stopMonitor>>

\* Server::~Server: reaper.join() has returned
DestructorJoined ==
    /\ at["embedder"] = "joinReaper"
    /\ at["reaper"] = "done"
    /\ server' = "destroyed"
    /\ Goes("embedder", "done")
    /\ UNCHANGED <<settledVars, connections, delivered, chunks, peerVars,
                   transport, bound, lifecycle, timeVars, reaperVars, mutex,
                   stopMonitor>>

NextThreads ==
    \/ NewConnectionCalled
    \/ NewConnectionLocked
    \/ NewConnectionReturns
    \/ DataCalled
    \/ DataLocked
    \/ DataReturns
    \/ BrokenCalled
    \/ BrokenLocked
    \/ BrokenReturns
    \/ ReaperLocked
    \/ ReaperLoop
    \/ ReaperDrops
    \/ ReaperRelocked
    \/ ReaperWaits
    \/ ReaperNotified
    \/ MonitorWakes
    \/ MonitorLocked
    \/ MonitorScans
    \/ MonitorStops
    \/ MobilizeStarts
    \/ DemobilizeCalled
    \/ DemobilizeJoined
    \/ DestructorCalled
    \/ DestructorDemobilized
    \/ DestructorLocked
    \/ DestructorStops
    \/ DestructorJoined

\* the steps a thread takes by itself once it has been called; a thread is
\* at one place at a time, so at most one of the steps of a thread is
\* possible
NewConnectionStep == NewConnectionLocked \/ NewConnectionReturns

BrokenStep == BrokenLocked \/ BrokenReturns

ReaperStep ==
    \/ ReaperLocked
    \/ ReaperLoop
    \/ ReaperDrops
    \/ ReaperRelocked
    \/ ReaperWaits
    \/ ReaperNotified

MonitorStep == MonitorLocked \/ MonitorStops

EmbedderStep ==
    \/ DemobilizeJoined
    \/ DestructorDemobilized
    \/ DestructorLocked
    \/ DestructorStops
    \/ DestructorJoined

\* every thread that can take a step takes it in the end: a delegate and the
\* monitor return (the mutex does not stay with them), and the steps of the
\* other threads are taken once they stay possible
SpecThreads ==
    /\ InitThreads
    /\ [][NextThreads]_vars
    /\ []<>(mutex # "data")
    /\ []<>(mutex # "monitor")
    /\ WF_vars(DataLocked)
    /\ WF_vars(NewConnectionStep)
    /\ WF_vars(BrokenStep)
    /\ WF_vars(ReaperStep)
    /\ WF_vars(MonitorStep)
    /\ WF_vars(EmbedderStep)

\* the thread is blocked: in lock() or in join()
Blocked(t) ==
    at[t] \in {"lock", "relock", "woken", "joinMonitor", "joinLast",
              "joinReaper"}

\* the thread a blocked thread waits for, or "nobody" when what it waits for
\* is there
WaitsFor(t) ==
    IF at[t] \in {"lock", "relock", "woken"}
    THEN IF mutex = "free" THEN "nobody" ELSE mutex
    ELSE IF at[t] \in {"joinMonitor", "joinLast"}
    THEN IF at["monitor"] = "stopped" THEN "nobody" ELSE "monitor"
    ELSE IF at[t] = "joinReaper"
    THEN IF at["reaper"] = "done" THEN "nobody" ELSE "reaper"
    ELSE "nobody"

\* the thread waits for a notification that nothing has given: the reaper
\* in condition.wait with its predicate false, the monitor in its timed wait
\* with its stop flag clear
Asleep(t) ==
    \/ t = "reaper" /\ at[t] = "wait" /\ ~Woken
    \/ t = "monitor" /\ at[t] = "sleep" /\ ~stopMonitor

\* the thread can take a step, or waits for a thread that can, and so on
RECURSIVE CanProceed(_, _)
CanProceed(t, n) ==
    IF Asleep(t) THEN FALSE
    ELSE IF WaitsFor(t) = "nobody" THEN TRUE
    ELSE n > 0 /\ CanProceed(WaitsFor(t), n - 1)

====
